---------------------------- MODULE Spec2Model ----------------------------
(***************************************************************************)
(* A model of kou12345/whisper-example.                                    *)
(*                                                                         *)
(* Each part of the repository is modelled with a specification of its     *)
(* own over the variables it owns:                                         *)
(*                                                                         *)
(*   SpecPool   backend/main.py: the two-instance engine pool as used by   *)
(*              the /transcribe handler, on the single asyncio event loop. *)
(*   SpecLock   backend/main.py: get_available_model and release_model as  *)
(*              functions of the flags.                                    *)
(*   SpecPipe   src/main.py: TranscriptionService, the start and stop      *)
(*              endpoints, the capture task, the consumer task and the     *)
(*              bounded asyncio.Queue between them; SpecPipeFair adds the  *)
(*              fairness of the event loop.                                *)
(*   SpecLog    src/main.py: the rolling result log.                       *)
(*   SpecBuf    src/audio.py: the rolling sample buffer, the capture       *)
(*              callback (its own thread), the chunk extraction and the    *)
(*              loop of start_recording.                                   *)
(*   SpecVoice  src/audio.py: the voicing decision of the capture loop.    *)
(*   SpecVad    src/audio.py: _is_voiced as a function of its argument.    *)
(*   SpecDiar   src/diarization.py: the pretrained path and the fallback.  *)
(*   SpecElbow  src/diarization.py: _determine_optimal_clusters.           *)
(*   SpecAlign  src/diarization.py: assign_speakers_to_transcription.      *)
(*   SpecTrans  src/transcribe.py: transcribe under the consumer loop.     *)
(*                                                                         *)
(* Time is abstracted: a timeout may fire whenever the thing waited for    *)
(* has not happened yet.  An asyncio task runs without interruption from   *)
(* one await that suspends to the next, so each action of a task is one    *)
(* such run.                                                               *)
(***************************************************************************)
EXTENDS Integers, Sequences, FiniteSets, TLC

(***************************************************************************)
(* Bounds of the model.                                                    *)
(***************************************************************************)
\* concurrent /transcribe request slots
NumRequests == 3
\* capacity of the audio queue (MAX_AUDIO_QUEUE_SIZE of main.py line 66, scaled)
QueueCap == 2
\* /start requests that create a task and /stop requests, taken together
MaxCalls == 3
\* chunks captured
MaxChunks == 3
\* chunk and overlap length in samples (scaled), samples per callback block,
\* samples delivered in all
ChunkLen == 3
OverlapLen == 1
MaxBlock == 3
MaxSamples == 7
\* the statistics are logged every StatsEvery chunks (10 in the code, scaled)
StatsEvery == 2
\* samples of a segment given to the voicing decision, samples of a VAD frame
\* (vad_frame_size, scaled), the largest sample value, segments taken
VoiceLen == 11
VadFrameLen == 1
MaxLevel == 2
MaxSegments == 2

\* capacity of the result log (50 in main.py line 146, scaled), results the
\* transcriber returns
ResultCap == 3
MaxResults == 7

\* half a second of audio in samples (8000 scaled) and the longest audio the
\* fallback diarization is given
DiarHalf == 1
MaxAudioLen == 9

\* rms_energy < 0.001 (diarization.py line 194), in the unit of Levels
RmsFloor == 1

\* config.py line 27
MAX_SPEAKERS == 5

\* the aligner's inputs: times 0..MaxTime, at most MaxTurns diarization turns
\* and MaxTrans transcript segments
MaxTime == 3
MaxTurns == 2
MaxTrans == 1

\* queue entries the capture side produces for the transcribing consumer
MaxEntries == 3

\* the amplitude 1.0 that a normalised audio peaks at (diarization.py line
\* 106), in the unit of Levels
FullScale == 1000

\* the most windows the cluster-count selection is given, and the largest
\* inertia a fit reports
MaxWindows == 18
MaxInertia == 2

\* calls of get_available_model and release_model made in a row
MaxLockCalls == 5

\* voice_ratio > 0.1 (audio.py line 62) is voiced_frames * 10 > total_frames
VoiceRatioDen == 10
\* audio_level > 0.001 (audio.py line 94), in units of 0.001
AudioLevelFloor == 1

Max(a, b) == IF a >= b THEN a ELSE b
Min(a, b) == IF a <= b THEN a ELSE b
Range(s) == {s[i] : i \in 1..Len(s)}

VARIABLES
    \* ---- backend/main.py ----
    model_lock,         \* model_lock: instance id -> busy flag
    rpc,                \* request -> where its handler stands
    model_id,           \* request -> the handler's local model_id
    failed,             \* request -> an exception is propagating
    released,           \* request -> release_model calls it made (history)
    running,            \* the handler the event loop is running, or NoReq
    \* ---- src/main.py ----
    is_running, processing_active, processing_task, transcription_task,
    audio_queue,
    is_recording,       \* AudioCapture.is_recording
    tpc, tawait, tcancel,   \* start_transcription tasks
    ppc, pcancel,           \* _process_audio_queue tasks
    hpc, hP, hT,            \* /stop handlers
    captured,           \* chunks yielded by the capture loop so far (ids 1..)
    enqueued, evicted, cleared,   \* history: sets of chunk ids
    transcribed,        \* history: chunk ids in the order passed to transcribe
    overlapped,         \* history: a start task raised the flags before an
                        \* earlier start's tasks and every stop had ended
    \* ---- src/audio.py ----
    audio_buffer, processing_buffer, buffer_lock,
    gpc, chunk, remaining, chunks_captured, returned,
    nextSample,         \* the next sample the device delivers (ids 1..)
    dropped,            \* history: samples the deque's maxlen pushed out
    seen,               \* history: the buffer as line 120 found it
    sizes,              \* chunk_size, overlap_size and vad_frame_size as
                        \* __init__ computes them from config.py
    lpc,                \* where the loop of start_recording stands
    \* ---- src/audio.py: the voicing decision of the capture loop ----
    vseg,               \* chunk_ready: the segment being decided, or <<>>
    vpc,                \* where the capture loop stands with it
    audio_level,        \* np.max(np.abs(chunk_ready)), in units of 0.001
    vi, voiced_frames, total_frames,   \* the locals of _is_voiced
    chunks_processed,   \* AudioCapture.chunks_processed
    vqueue, vsent,      \* the audio queue and what the transcriber was given
    vtaken,             \* segments the loop has taken so far
    heardSpeech, heardAny,   \* history: frames the VAD called speech / classified
    skippedSilent,      \* history: an all-zero segment was skipped
    \* ---- src/main.py: the result log ----
    transcription_results,   \* the module's list of results (ids 1..)
    results_made,       \* results the transcriber has returned so far
    results_popped,     \* history: ids removed by pop(0)
    \* ---- src/diarization.py: _fallback_diarization ----
    daudio,             \* audio_data of the call in progress (sample levels)
    dpc,                \* position of the call; "returned" is a return of
                        \* the fallback, "returned_pretrained" one of
                        \* _pyannote_diarization itself
    di,                 \* loop variable i of line 187 (a sample index)
    segment_times,      \* windows that survived, as [start, end] in samples
    n_clusters,         \* result of _determine_optimal_clusters, 0 before
    dsegments,          \* segments built at lines 253-259
    dresult,            \* the dictionary returned to the caller
    dfailed,            \* history: steps of this call that raised
    dclustered,         \* history: line 247 ran in this call
    pipeline,           \* self.pipeline is set (the pretrained model is loaded)
    pfailed,            \* history: steps of the pretrained path that failed
    \* ---- src/diarization.py: assign_speakers_to_transcription ----
    trans_segments,     \* transcription_segments of the call
    dia_segments,       \* diarization_result["segments"] of the call
    updated_segments,   \* the list the call returned
    apc,                \* position of the call
    \* ---- src/transcribe.py: transcribe, under the consumer loop of src/main.py ----
    is_loaded,          \* MLXTranscriber.is_loaded
    tr_queue,           \* the queue entries waiting for the consumer (ids)
    tr_pc,              \* position of the consumer and of its transcribe call
    tr_chunk,           \* audio_chunk, the entry taken at line 132
    tr_result,          \* result, in the call and then in the consumer
    tr_threw,           \* history: entries whose transcription threw
    tr_handled,         \* history: entries the consumer has finished with
    tr_made,            \* entries put into the queue so far
    \* ---- src/diarization.py: _determine_optimal_clusters ----
    features_n,         \* len(features), the number of windows
    inertias,           \* the inertias appended at line 380 so far
    epc,                \* position of the call
    chosen_k,           \* the cluster count returned, 0 before
    eraised,            \* history: a fit of line 379 raised
    \* ---- backend/main.py: get_available_model and release_model called in any order ----
    lock_flags,         \* model_lock as the calls made so far left it
    lock_calls,         \* history: the calls, with the flags before and after
    \* ---- src/audio.py: _is_voiced called on its own ----
    iv_data,
    iv_pc,
    iv_i,
    iv_voiced,
    iv_total,
    iv_result,
    iv_raised,
    iv_last,
    iv_speech,
    iv_classified,
    iv_errors

poolVars == <<model_lock, rpc, model_id, failed, released, running>>
pipeVars == <<is_running, processing_active, processing_task, transcription_task,
              audio_queue, is_recording, tpc, tawait, tcancel, ppc, pcancel,
              hpc, hP, hT, captured, enqueued, evicted, cleared, transcribed,
              overlapped>>
bufVars == <<audio_buffer, processing_buffer, buffer_lock, gpc, chunk,
             remaining, chunks_captured, returned, nextSample, dropped, seen,
             sizes, lpc>>
voiceVars == <<vseg, vpc, audio_level, vi, voiced_frames, total_frames,
               chunks_processed, vqueue, vsent, vtaken, heardSpeech, heardAny,
               skippedSilent>>
logVars == <<transcription_results, results_made, results_popped>>
diarVars == <<daudio, dpc, di, segment_times, n_clusters, dsegments, dresult,
              dfailed, dclustered, pipeline, pfailed>>
alignVars == <<trans_segments, dia_segments, updated_segments, apc>>
transVars == <<is_loaded, tr_queue, tr_pc, tr_chunk, tr_result, tr_threw, tr_handled, tr_made>>
elbowVars == <<features_n, inertias, epc, chosen_k, eraised>>
acqVars == <<lock_flags, lock_calls>>
vadVars == <<iv_data, iv_pc, iv_i, iv_voiced, iv_total, iv_result, iv_raised, iv_last, iv_speech, iv_classified, iv_errors>>
vars == <<poolVars, pipeVars, bufVars, voiceVars, logVars, diarVars, alignVars, transVars, elbowVars, acqVars, vadVars>>

(***************************************************************************)
(* backend/main.py: the engine pool                                        *)
(***************************************************************************)
Requests == 1..NumRequests
NoReq == 0
ModelIds == {"1", "2"}
None == "None"

get_available_model_unmarked(lock) ==
    IF ~lock["1"] THEN [lock |-> lock, id |-> "1"]
    ELSE IF ~lock["2"] THEN [lock |-> [lock EXCEPT !["2"] = TRUE], id |-> "2"]
    ELSE [lock |-> [lock EXCEPT !["1"] = TRUE], id |-> "1"]

get_available_model_fallback_two(lock) ==
    IF ~lock["1"] THEN [lock |-> [lock EXCEPT !["1"] = TRUE], id |-> "1"]
    ELSE [lock |-> [lock EXCEPT !["2"] = TRUE], id |-> "2"]

\* get_available_model(): the flags after the call and the id returned
get_available_model(lock) ==
    IF ~lock["1"] THEN [lock |-> [lock EXCEPT !["1"] = TRUE], id |-> "1"]
    ELSE IF ~lock["2"] THEN [lock |-> [lock EXCEPT !["2"] = TRUE], id |-> "2"]
    ELSE [lock |-> [lock EXCEPT !["1"] = TRUE], id |-> "1"]

release_model_leak(lock, id) == lock

\* release_model(model_id)
release_model(lock, id) == [lock EXCEPT ![id] = FALSE]

TranscribeCallAwaited(r) == NoReq

\* whisper_model.transcribe(...) is a plain call, not an await: the handler
\* keeps the event loop from get_available_model() to its return.
TranscribeCallLoop(r) == r

\* The event loop runs one handler at a time: a handler steps when it is the
\* one running, or is started or resumed when no handler is running.
CanStep(r) == running = r \/ running = NoReq

\* A request arrives: model_id = None, the content-type check, the temporary
\* file, up to `await file.read()` (lines 77-83).  A failed check raises inside
\* the outer try.
Arrive(r) ==
    /\ rpc[r] \in {"idle", "done"}
    /\ CanStep(r)
    /\ model_id' = [model_id EXCEPT ![r] = None]
    /\ released' = [released EXCEPT ![r] = 0]
    /\ failed' = [failed EXCEPT ![r] = FALSE]
    /\ \E audio \in BOOLEAN :
         IF audio
         THEN rpc' = [rpc EXCEPT ![r] = "reading"] /\ running' = NoReq
         ELSE rpc' = [rpc EXCEPT ![r] = "except"] /\ running' = r
    /\ UNCHANGED model_lock
    /\ UNCHANGED <<pipeVars, bufVars, voiceVars, logVars, diarVars, alignVars, transVars, elbowVars, acqVars, vadVars>>

\* file.read() returns (or raises) and the handler is resumed (lines 83-85).
ReadDone(r) ==
    /\ rpc[r] = "reading"
    /\ CanStep(r)
    /\ running' = r
    /\ \E ok \in BOOLEAN :
         rpc' = [rpc EXCEPT ![r] = IF ok THEN "acquire" ELSE "except"]
    /\ UNCHANGED <<model_lock, model_id, failed, released>>
    /\ UNCHANGED <<pipeVars, bufVars, voiceVars, logVars, diarVars, alignVars, transVars, elbowVars, acqVars, vadVars>>

\* whisper_model, model_id = get_available_model() (line 89)
Acquire(r) ==
    /\ rpc[r] = "acquire"
    /\ CanStep(r)
    /\ LET g == get_available_model(model_lock) IN
         /\ model_lock' = g.lock
         /\ model_id' = [model_id EXCEPT ![r] = g.id]
    /\ rpc' = [rpc EXCEPT ![r] = "transcribing"]
    /\ running' = TranscribeCallLoop(r)
    /\ UNCHANGED <<failed, released>>
    /\ UNCHANGED <<pipeVars, bufVars, voiceVars, logVars, diarVars, alignVars, transVars, elbowVars, acqVars, vadVars>>

\* The transcription, the filtering and the diarization (lines 92-184): they
\* return or raise.
Transcribe(r) ==
    /\ rpc[r] = "transcribing"
    /\ CanStep(r)
    /\ \E ok \in BOOLEAN : failed' = [failed EXCEPT ![r] = ~ok]
    /\ rpc' = [rpc EXCEPT ![r] = "finally"]
    /\ running' = r
    /\ UNCHANGED <<model_lock, model_id, released>>
    /\ UNCHANGED <<pipeVars, bufVars, voiceVars, logVars, diarVars, alignVars, transVars, elbowVars, acqVars, vadVars>>

\* finally: release the model, unlink the file (lines 186-190).  The handler
\* returns, or an exception (the try's, or unlink's) goes on to the outer
\* except.
Finally(r) ==
    /\ rpc[r] = "finally"
    /\ CanStep(r)
    /\ model_lock' = IF model_id[r] # None
                     THEN release_model(model_lock, model_id[r]) ELSE model_lock
    /\ released' = [released EXCEPT ![r] = @ + (IF model_id[r] # None THEN 1 ELSE 0)]
    /\ \E unlinked \in BOOLEAN :
         IF failed[r] \/ ~unlinked
         THEN /\ rpc' = [rpc EXCEPT ![r] = "except"]
              /\ failed' = [failed EXCEPT ![r] = TRUE]
              /\ running' = r
         ELSE /\ rpc' = [rpc EXCEPT ![r] = "done"]
              /\ failed' = failed
              /\ running' = NoReq
    /\ UNCHANGED model_id
    /\ UNCHANGED <<pipeVars, bufVars, voiceVars, logVars, diarVars, alignVars, transVars, elbowVars, acqVars, vadVars>>

\* except Exception: release the model if one was taken, raise the 500
\* (lines 192-196).
Except(r) ==
    /\ rpc[r] = "except"
    /\ CanStep(r)
    /\ model_lock' = IF model_id[r] # None
                     THEN release_model(model_lock, model_id[r]) ELSE model_lock
    /\ released' = [released EXCEPT ![r] = @ + (IF model_id[r] # None THEN 1 ELSE 0)]
    /\ failed' = [failed EXCEPT ![r] = TRUE]
    /\ rpc' = [rpc EXCEPT ![r] = "done"]
    /\ running' = NoReq
    /\ UNCHANGED model_id
    /\ UNCHANGED <<pipeVars, bufVars, voiceVars, logVars, diarVars, alignVars, transVars, elbowVars, acqVars, vadVars>>

PoolInit ==
    /\ model_lock = [m \in ModelIds |-> FALSE]
    /\ rpc = [r \in Requests |-> "idle"]
    /\ model_id = [r \in Requests |-> None]
    /\ failed = [r \in Requests |-> FALSE]
    /\ released = [r \in Requests |-> 0]
    /\ running = NoReq

PoolNext ==
    \E r \in Requests :
        \/ Arrive(r)
        \/ ReadDone(r)
        \/ Acquire(r)
        \/ Transcribe(r)
        \/ Finally(r)
        \/ Except(r)

(***************************************************************************)
(* src/config.py: the default configuration                                *)
(***************************************************************************)
SAMPLE_RATE == 16000
CHUNK_MS == 4000
OVERLAP_MS == 500
VAD_FRAME_MS == 10

\* int(SAMPLE_RATE * CHUNK_MS / 1000) and its like: the quotients are whole
get_chunk_size == (SAMPLE_RATE * CHUNK_MS) \div 1000
get_overlap_size == (SAMPLE_RATE * OVERLAP_MS) \div 1000
get_vad_frame_size == (SAMPLE_RATE * VAD_FRAME_MS) \div 1000

(***************************************************************************)
(* src/audio.py: the sample buffer                                         *)
(***************************************************************************)
chunk_size == ChunkLen
overlap_size == OverlapLen
\* deque(maxlen=self.chunk_size + self.overlap_size)
BufferMaxLen == chunk_size + overlap_size

LastN(s, n) == IF Len(s) <= n THEN s ELSE SubSeq(s, Len(s) - n + 1, Len(s))
FirstN(s, n) == SubSeq(s, 1, Min(n, Len(s)))

extend_unbounded(buf, block) == buf \o block

\* deque.extend on a deque with maxlen: append at the right, discard from the
\* left what no longer fits
extend(buf, block) == LastN(buf \o block, BufferMaxLen)

\* _audio_callback, on the audio thread: it takes no lock.
AudioCallback ==
    /\ lpc # "stopped"
    /\ \E n \in 1..MaxBlock :
         /\ nextSample + n - 1 <= MaxSamples
         /\ LET block == [i \in 1..n |-> nextSample + i - 1]
                all == audio_buffer \o block
            IN /\ audio_buffer' = extend(audio_buffer, block)
               /\ dropped' = dropped \cup
                     {all[i] : i \in 1..Max(0, Len(all) - BufferMaxLen)}
         /\ nextSample' = nextSample + n
    /\ UNCHANGED <<processing_buffer, buffer_lock, gpc, chunk, remaining,
                   chunks_captured, returned, seen>>
    /\ UNCHANGED <<sizes, lpc>>
    /\ UNCHANGED <<poolVars, pipeVars, voiceVars, logVars, diarVars, alignVars, transVars, elbowVars, acqVars, vadVars>>

lock_exit_held(lock) == lock

\* leaving a `with self.buffer_lock` block releases the lock (lines 118-142
\* and 151-153)
lock_exit(lock) == FALSE

\* _get_next_chunk: with self.buffer_lock (line 118)
GetChunkLock ==
    /\ lpc = "top"
    /\ gpc = "idle"
    /\ ~buffer_lock
    /\ buffer_lock' = TRUE
    /\ gpc' = "check"
    /\ lpc' = "call"
    /\ UNCHANGED <<audio_buffer, processing_buffer, chunk, remaining,
                   chunks_captured, returned, nextSample, dropped, seen>>
    /\ UNCHANGED sizes
    /\ UNCHANGED <<poolVars, pipeVars, voiceVars, logVars, diarVars, alignVars, transVars, elbowVars, acqVars, vadVars>>

has_chunk_nonempty(buf) == buf # <<>>

\* len(self.audio_buffer) >= self.chunk_size (line 120)
has_chunk(buf) == Len(buf) >= chunk_size

\* if len(self.audio_buffer) >= self.chunk_size (line 120)
GetChunkCheck ==
    /\ gpc = "check"
    /\ gpc' = IF has_chunk(audio_buffer) THEN "copy" ELSE "return"
    /\ seen' = audio_buffer
    /\ UNCHANGED <<audio_buffer, processing_buffer, buffer_lock, chunk,
                   remaining, chunks_captured, returned, nextSample, dropped>>
    /\ UNCHANGED <<sizes, lpc>>
    /\ UNCHANGED <<poolVars, pipeVars, voiceVars, logVars, diarVars, alignVars, transVars, elbowVars, acqVars, vadVars>>

\* chunk = list(self.audio_buffer)[:self.chunk_size]; processing_buffer.append
\* (lines 122-128)
GetChunkCopy ==
    /\ gpc = "copy"
    /\ chunk' = FirstN(audio_buffer, chunk_size)
    /\ processing_buffer' = Append(processing_buffer, FirstN(audio_buffer, chunk_size))
    /\ remaining' = chunk_size - overlap_size
    /\ gpc' = "pop"
    /\ UNCHANGED <<audio_buffer, buffer_lock, chunks_captured, returned,
                   nextSample, dropped, seen>>
    /\ UNCHANGED <<sizes, lpc>>
    /\ UNCHANGED <<poolVars, pipeVars, voiceVars, logVars, diarVars, alignVars, transVars, elbowVars, acqVars, vadVars>>

\* one turn of `for _ in range(chunk_size - overlap_size): if self.audio_buffer:
\* self.audio_buffer.popleft()` (lines 131-133)
GetChunkPop ==
    /\ gpc = "pop"
    /\ remaining > 0
    /\ audio_buffer' = IF audio_buffer # <<>> THEN Tail(audio_buffer) ELSE audio_buffer
    /\ remaining' = remaining - 1
    /\ UNCHANGED <<processing_buffer, buffer_lock, gpc, chunk, chunks_captured,
                   returned, nextSample, dropped, seen>>
    /\ UNCHANGED <<sizes, lpc>>
    /\ UNCHANGED <<poolVars, pipeVars, voiceVars, logVars, diarVars, alignVars, transVars, elbowVars, acqVars, vadVars>>

\* self.chunks_captured += 1 (line 135)
GetChunkCounted ==
    /\ gpc = "pop"
    /\ remaining = 0
    /\ chunks_captured' = chunks_captured + 1
    /\ gpc' = "return"
    /\ UNCHANGED <<audio_buffer, processing_buffer, buffer_lock, chunk,
                   remaining, returned, nextSample, dropped, seen>>
    /\ UNCHANGED <<sizes, lpc>>
    /\ UNCHANGED <<poolVars, pipeVars, voiceVars, logVars, diarVars, alignVars, transVars, elbowVars, acqVars, vadVars>>

\* return the oldest chunk of the processing buffer, or None; the lock is
\* released on the way out (lines 138-142)
GetChunkReturn ==
    /\ gpc = "return"
    /\ IF processing_buffer # <<>>
       THEN /\ returned' = Head(processing_buffer)
            /\ processing_buffer' = Tail(processing_buffer)
       ELSE /\ returned' = <<>>
            /\ processing_buffer' = processing_buffer
    /\ buffer_lock' = lock_exit(buffer_lock)
    /\ lpc' = "decide"
    /\ gpc' = "idle"
    /\ UNCHANGED <<audio_buffer, chunk, remaining, chunks_captured, nextSample,
                   dropped, seen>>
    /\ UNCHANGED sizes
    /\ UNCHANGED <<poolVars, pipeVars, voiceVars, logVars, diarVars, alignVars, transVars, elbowVars, acqVars, vadVars>>

\* the loop of start_recording after `chunk_ready = await
\* self._get_next_chunk()`: a chunk is yielded to the consumer when line 94
\* lets it through and skipped otherwise; with no chunk the loop sleeps
\* (lines 89-102)
LoopDecide ==
    /\ lpc = "decide"
    /\ IF returned # <<>>
       THEN \E forwarded \in BOOLEAN :
               lpc' = IF forwarded THEN "yield" ELSE "check_stats"
       ELSE lpc' = "sleep"
    /\ UNCHANGED <<audio_buffer, processing_buffer, buffer_lock, gpc, chunk,
                   remaining, chunks_captured, returned, nextSample, dropped,
                   seen, sizes>>
    /\ UNCHANGED <<poolVars, pipeVars, voiceVars, logVars, diarVars, alignVars, transVars, elbowVars, acqVars, vadVars>>

\* the consumer asks for the next chunk, or the sleep ends (lines 97, 102)
LoopResume ==
    /\ lpc \in {"yield", "sleep"}
    /\ lpc' = "check_stats"
    /\ UNCHANGED <<audio_buffer, processing_buffer, buffer_lock, gpc, chunk,
                   remaining, chunks_captured, returned, nextSample, dropped,
                   seen, sizes>>
    /\ UNCHANGED <<poolVars, pipeVars, voiceVars, logVars, diarVars, alignVars, transVars, elbowVars, acqVars, vadVars>>

\* self.chunks_captured > 0 and self.chunks_captured % 10 == 0 (line 105)
stats_due(captured_count) == captured_count > 0 /\ captured_count % StatsEvery = 0

\* if ...: self._log_statistics(), which enters `with self.buffer_lock`
\* (lines 105-106 and 144-151)
LoopStats ==
    /\ lpc = "check_stats"
    /\ IF stats_due(chunks_captured)
       THEN /\ ~buffer_lock
            /\ buffer_lock' = TRUE
            /\ lpc' = "stats"
       ELSE /\ lpc' = "top"
            /\ UNCHANGED buffer_lock
    /\ UNCHANGED <<audio_buffer, processing_buffer, gpc, chunk, remaining,
                   chunks_captured, returned, nextSample, dropped, seen, sizes>>
    /\ UNCHANGED <<poolVars, pipeVars, voiceVars, logVars, diarVars, alignVars, transVars, elbowVars, acqVars, vadVars>>

\* _log_statistics reads the two lengths and leaves its with block
\* (lines 151-153)
StatsDone ==
    /\ lpc \in {"stats", "final_stats"}
    /\ buffer_lock' = lock_exit(buffer_lock)
    /\ lpc' = IF lpc = "stats" THEN "top" ELSE "stopped"
    /\ UNCHANGED <<audio_buffer, processing_buffer, gpc, chunk, remaining,
                   chunks_captured, returned, nextSample, dropped, seen, sizes>>
    /\ UNCHANGED <<poolVars, pipeVars, voiceVars, logVars, diarVars, alignVars, transVars, elbowVars, acqVars, vadVars>>

\* the loop ends: is_recording is found false at line 85, or the generator is
\* closed or cancelled where it is suspended; the finally block calls
\* _log_statistics (lines 111-114)
LoopExit ==
    /\ lpc \in {"top", "yield", "sleep"}
    /\ ~buffer_lock
    /\ buffer_lock' = TRUE
    /\ lpc' = "final_stats"
    /\ UNCHANGED <<audio_buffer, processing_buffer, gpc, chunk, remaining,
                   chunks_captured, returned, nextSample, dropped, seen, sizes>>
    /\ UNCHANGED <<poolVars, pipeVars, voiceVars, logVars, diarVars, alignVars, transVars, elbowVars, acqVars, vadVars>>

BufInit ==
    /\ audio_buffer = <<>>
    /\ processing_buffer = <<>>
    /\ buffer_lock = FALSE
    /\ gpc = "idle"
    /\ chunk = <<>>
    /\ remaining = 0
    /\ chunks_captured = 0
    /\ returned = <<>>
    /\ nextSample = 1
    /\ dropped = {}
    /\ seen = <<>>
    /\ lpc = "top"
    /\ sizes = [chunk_size |-> get_chunk_size,
                overlap_size |-> get_overlap_size,
                vad_frame_size |-> get_vad_frame_size]

BufNext ==
    \/ AudioCallback
    \/ GetChunkLock
    \/ GetChunkCheck
    \/ GetChunkCopy
    \/ GetChunkPop
    \/ GetChunkCounted
    \/ GetChunkReturn
    \/ LoopDecide
    \/ LoopResume
    \/ LoopStats
    \/ StatsDone
    \/ LoopExit

(***************************************************************************)
(* src/main.py: the capture task, the queue, the consumer, start and stop  *)
(***************************************************************************)
Tasks == 1..MaxCalls            \* start task t creates consumer task t
Stops == 1..MaxCalls
NoTask == 0

\* asyncio.Queue.full() for a queue of maxsize MAX_AUDIO_QUEUE_SIZE (line 66)
QueueFull(q) == Len(q) >= QueueCap

enqueue_chunk_no_evict(q, c) == [queue |-> Append(q, c), evicted |-> {}]

enqueue_chunk_drop_two(q, c) ==
    IF ~QueueFull(q) THEN [queue |-> Append(q, c), evicted |-> {}]
    ELSE [queue |-> Append(Tail(Tail(q)), c), evicted |-> {Head(q)}]

enqueue_chunk_drop_newest(q, c) ==
    IF ~QueueFull(q) THEN [queue |-> Append(q, c), evicted |-> {}]
    ELSE [queue |-> q, evicted |-> {}]

enqueue_chunk_at_head(q, c) ==
    IF ~QueueFull(q) THEN [queue |-> <<c>> \o q, evicted |-> {}]
    ELSE [queue |-> <<c>> \o Tail(q), evicted |-> {Head(q)}]

\* put_nowait(chunk); on QueueFull: get_nowait() then put_nowait(chunk); a
\* QueueEmpty from get_nowait is passed over (lines 99-111).  The queue after
\* it and what was taken out to make room.
enqueue_chunk(q, c) ==
    IF ~QueueFull(q) THEN [queue |-> Append(q, c), evicted |-> {}]
    ELSE IF q = <<>> THEN [queue |-> q, evicted |-> {}]
    ELSE [queue |-> Append(Tail(q), c), evicted |-> {Head(q)}]

queue_get_peek(q) == [item |-> Head(q), queue |-> q]

\* audio_queue.get() on a queue that holds an entry (line 133)
queue_get(q) == [item |-> Head(q), queue |-> Tail(q)]

consumer_continues_active_only(active, q) == active

\* while self.processing_active or not self.audio_queue.empty() (line 129)
consumer_continues(active, q) == active \/ q # <<>>

\* The first index not yet used.
FirstFree(pc, S) == {i \in S : pc[i] = "none" /\ \A j \in S : j < i => pc[j] # "none"}

\* The /start requests that created a task and the /stop requests so far.
CallsMade ==
    Cardinality({t \in Tasks : tpc[t] # "none"}) +
    Cardinality({h \in Stops : hpc[h] # "none"})

\* No stop handler, no consumer task and no start task other than t is under
\* way.
Quiet(t) ==
    /\ \A h \in Stops : hpc[h] \in {"none", "done"}
    /\ \A u \in Tasks : ppc[u] \in {"none", "done"}
    /\ \A u \in Tasks \ {t} : tpc[u] \in {"none", "done"}

\* POST /start (lines 203-213): nothing while is_running; else a task for
\* start_transcription() is created, to run later.
StartEndpoint ==
    /\ CallsMade < MaxCalls
    /\ ~is_running
    /\ \E t \in FirstFree(tpc, Tasks) :
         /\ tpc' = [tpc EXCEPT ![t] = "created"]
         /\ transcription_task' = t
    /\ UNCHANGED <<is_running, processing_active, processing_task, audio_queue,
                   is_recording, tawait, tcancel, ppc, pcancel, hpc, hP, hT,
                   captured, enqueued, evicted, cleared, transcribed>>
    /\ UNCHANGED <<poolVars, bufVars, voiceVars, logVars, diarVars, alignVars, transVars, elbowVars, acqVars, vadVars, overlapped>>

\* The finally of start_transcription (lines 115-121): the flags go down and
\* the task awaits self.processing_task, if there is one.
StartFinally(t, ptask) ==
    /\ is_running' = FALSE
    /\ processing_active' = FALSE
    /\ IF ptask # NoTask
       THEN /\ tpc' = [tpc EXCEPT ![t] = "awaitP"]
            /\ tawait' = [tawait EXCEPT ![t] = ptask]
       ELSE /\ tpc' = [tpc EXCEPT ![t] = "done"]
            /\ tawait' = tawait

\* start_transcription begins to run (lines 80-95, audio.py 69-85): it returns
\* at once if is_running; else it raises the flags, creates the consumer task
\* and opens the input stream, which may fail.
TStart(t) ==
    /\ tpc[t] = "created"
    /\ ~tcancel[t]
    /\ IF is_running
       THEN /\ tpc' = [tpc EXCEPT ![t] = "done"]
            /\ UNCHANGED <<is_running, processing_active, processing_task,
                           is_recording, tawait, ppc, overlapped>>
       ELSE /\ processing_task' = t
            /\ overlapped' = (overlapped \/ ~Quiet(t))
            /\ ppc' = [ppc EXCEPT ![t] = "created"]
            /\ \E opened \in BOOLEAN :
                 IF opened
                 THEN /\ is_running' = TRUE
                      /\ processing_active' = TRUE
                      /\ is_recording' = TRUE
                      /\ tpc' = [tpc EXCEPT ![t] = "rec"]
                      /\ tawait' = tawait
                 ELSE /\ is_recording' = FALSE
                      /\ StartFinally(t, t)
    /\ UNCHANGED <<transcription_task, audio_queue, tcancel, pcancel, hpc, hP,
                   hT, captured, enqueued, evicted, cleared, transcribed>>
    /\ UNCHANGED <<poolVars, bufVars, voiceVars, logVars, diarVars, alignVars, transVars, elbowVars, acqVars, vadVars>>

\* The capture loop extracts a voiced chunk and yields it (audio.py 85-97); the
\* body of the async for (lines 96-111) breaks if not is_running, else puts the
\* chunk on the queue.  Nothing awaits between the extraction and the put.
TEnqueue(t) ==
    /\ tpc[t] = "rec"
    /\ ~tcancel[t]
    /\ is_recording
    /\ captured < MaxChunks
    /\ captured' = captured + 1
    /\ IF ~is_running
       THEN /\ StartFinally(t, processing_task)
            /\ UNCHANGED <<audio_queue, enqueued, evicted>>
       ELSE /\ LET e == enqueue_chunk(audio_queue, captured + 1) IN
               /\ audio_queue' = e.queue
               /\ evicted' = evicted \cup e.evicted
               /\ enqueued' = enqueued \cup ({captured + 1} \cap Range(e.queue))
            /\ UNCHANGED <<is_running, processing_active, tpc, tawait>>
    /\ UNCHANGED <<processing_task, transcription_task, is_recording, tcancel,
                   ppc, pcancel, hpc, hP, hT, cleared, transcribed>>
    /\ UNCHANGED <<poolVars, bufVars, voiceVars, logVars, diarVars, alignVars, transVars, elbowVars, acqVars, vadVars, overlapped>>

\* `while self.is_recording` ends (audio.py 85, 111-114): the generator is
\* exhausted, the async for ends and the finally runs.
TLoopExit(t) ==
    /\ tpc[t] = "rec"
    /\ ~tcancel[t]
    /\ ~is_recording
    /\ StartFinally(t, processing_task)
    /\ UNCHANGED <<processing_task, transcription_task, audio_queue,
                   is_recording, tcancel, ppc, pcancel, hpc, hP, hT, captured,
                   enqueued, evicted, cleared, transcribed>>
    /\ UNCHANGED <<poolVars, bufVars, voiceVars, logVars, diarVars, alignVars, transVars, elbowVars, acqVars, vadVars, overlapped>>

\* A cancelled start task is resumed with CancelledError: before its first
\* run it ends; in the capture loop the generator's finally and the task's
\* finally run (the task then awaits the consumer); awaiting the consumer, the
\* cancellation is passed on to the consumer.
TCancelled(t) ==
    /\ tcancel[t]
    /\ tpc[t] \in {"created", "rec", "awaitP"}
    /\ tcancel' = [tcancel EXCEPT ![t] = FALSE]
    /\ CASE tpc[t] = "created" ->
              /\ tpc' = [tpc EXCEPT ![t] = "done"]
              /\ UNCHANGED <<is_running, processing_active, is_recording,
                             tawait, pcancel>>
         [] tpc[t] = "rec" ->
              /\ is_recording' = FALSE
              /\ StartFinally(t, processing_task)
              /\ UNCHANGED pcancel
         [] tpc[t] = "awaitP" ->
              /\ pcancel' = [pcancel EXCEPT ![tawait[t]] =
                                @ \/ ppc[tawait[t]] # "done"]
              /\ UNCHANGED <<is_running, processing_active, is_recording, tpc,
                             tawait>>
    /\ UNCHANGED <<processing_task, transcription_task, audio_queue, ppc, hpc,
                   hP, hT, captured, enqueued, evicted, cleared, transcribed>>
    /\ UNCHANGED <<poolVars, bufVars, voiceVars, logVars, diarVars, alignVars, transVars, elbowVars, acqVars, vadVars, overlapped>>

\* `await self.processing_task` returns or raises (line 121): the task ends.
TAwaitDone(t) ==
    /\ tpc[t] = "awaitP"
    /\ ppc[tawait[t]] = "done"
    /\ tpc' = [tpc EXCEPT ![t] = "done"]
    /\ tawait' = [tawait EXCEPT ![t] = NoTask]
    /\ tcancel' = [tcancel EXCEPT ![t] = FALSE]
    /\ UNCHANGED <<is_running, processing_active, processing_task,
                   transcription_task, audio_queue, is_recording, ppc,
                   pcancel, hpc, hP, hT, captured, enqueued, evicted, cleared,
                   transcribed>>
    /\ UNCHANGED <<poolVars, bufVars, voiceVars, logVars, diarVars, alignVars, transVars, elbowVars, acqVars, vadVars, overlapped>>

ConsumerLoopAgain(active, q) == "get"

\* Where the consumer stands after the while test of line 129.
ConsumerLoop(active, q) == IF consumer_continues(active, q) THEN "get" ELSE "done"

\* except asyncio.TimeoutError: continue if self.processing_active, else break
\* (lines 152-157)
after_timeout(active, q) == IF active THEN ConsumerLoop(active, q) ELSE "done"

\* _process_audio_queue begins to run (lines 125-135).
PStart(p) ==
    /\ ppc[p] = "created"
    /\ ~pcancel[p]
    /\ ppc' = [ppc EXCEPT ![p] = ConsumerLoop(processing_active, audio_queue)]
    /\ UNCHANGED <<is_running, processing_active, processing_task,
                   transcription_task, audio_queue, is_recording, tpc, tawait,
                   tcancel, pcancel, hpc, hP, hT, captured, enqueued, evicted,
                   cleared, transcribed>>
    /\ UNCHANGED <<poolVars, bufVars, voiceVars, logVars, diarVars, alignVars, transVars, elbowVars, acqVars, vadVars, overlapped>>

\* audio_queue.get() returns an entry and it is passed to
\* self.transcriber.transcribe, which awaits the executor (lines 132-139).
PGet(p) ==
    /\ ppc[p] = "get"
    /\ ~pcancel[p]
    /\ audio_queue # <<>>
    /\ LET g == queue_get(audio_queue) IN
         /\ audio_queue' = g.queue
         /\ transcribed' = Append(transcribed, g.item)
    /\ ppc' = [ppc EXCEPT ![p] = "transcribe"]
    /\ UNCHANGED <<is_running, processing_active, processing_task,
                   transcription_task, is_recording, tpc, tawait, tcancel,
                   pcancel, hpc, hP, hT, captured, enqueued, evicted, cleared>>
    /\ UNCHANGED <<poolVars, bufVars, voiceVars, logVars, diarVars, alignVars, transVars, elbowVars, acqVars, vadVars, overlapped>>

\* The get times out on an empty queue (lines 152-157): continue if
\* processing_active, else break.
PTimeout(p) ==
    /\ ppc[p] = "get"
    /\ ~pcancel[p]
    /\ audio_queue = <<>>
    /\ ppc' = [ppc EXCEPT ![p] = after_timeout(processing_active, audio_queue)]
    /\ UNCHANGED <<is_running, processing_active, processing_task,
                   transcription_task, audio_queue, is_recording, tpc, tawait,
                   tcancel, pcancel, hpc, hP, hT, captured, enqueued, evicted,
                   cleared, transcribed>>
    /\ UNCHANGED <<poolVars, bufVars, voiceVars, logVars, diarVars, alignVars, transVars, elbowVars, acqVars, vadVars, overlapped>>

\* transcribe returns, or raises and the loop continues (lines 139-161); then
\* the while test.
PTranscribeDone(p) ==
    /\ ppc[p] = "transcribe"
    /\ ~pcancel[p]
    /\ ppc' = [ppc EXCEPT ![p] = ConsumerLoop(processing_active, audio_queue)]
    /\ UNCHANGED <<is_running, processing_active, processing_task,
                   transcription_task, audio_queue, is_recording, tpc, tawait,
                   tcancel, pcancel, hpc, hP, hT, captured, enqueued, evicted,
                   cleared, transcribed>>
    /\ UNCHANGED <<poolVars, bufVars, voiceVars, logVars, diarVars, alignVars, transVars, elbowVars, acqVars, vadVars, overlapped>>

\* A cancelled consumer is resumed with CancelledError, which no
\* `except Exception` catches: the task ends where it stands.
PCancelled(p) ==
    /\ pcancel[p]
    /\ ppc[p] \in {"created", "get", "transcribe"}
    /\ ppc' = [ppc EXCEPT ![p] = "done"]
    /\ pcancel' = [pcancel EXCEPT ![p] = FALSE]
    /\ UNCHANGED <<is_running, processing_active, processing_task,
                   transcription_task, audio_queue, is_recording, tpc, tawait,
                   tcancel, hpc, hP, hT, captured, enqueued, evicted, cleared,
                   transcribed>>
    /\ UNCHANGED <<poolVars, bufVars, voiceVars, logVars, diarVars, alignVars, transVars, elbowVars, acqVars, vadVars, overlapped>>

\* The rest of a stop once the wait for the consumer is over: the queue is
\* emptied (lines 180-186) and, back in the endpoint, the task of
\* service.transcription_task is cancelled and awaited (lines 221-226).
StopTail(h) ==
    /\ audio_queue' = <<>>
    /\ cleared' = cleared \cup Range(audio_queue)
    /\ hP' = [hP EXCEPT ![h] = NoTask]
    /\ IF transcription_task # NoTask
       THEN /\ tcancel' = [tcancel EXCEPT ![transcription_task] =
                             @ \/ tpc[transcription_task] # "done"]
            /\ hT' = [hT EXCEPT ![h] = transcription_task]
            /\ hpc' = [hpc EXCEPT ![h] = "waitT"]
       ELSE /\ hpc' = [hpc EXCEPT ![h] = "done"]
            /\ UNCHANGED <<tcancel, hT>>

\* POST /stop (lines 215-220, 165-175): the flags go down; the handler waits
\* for self.processing_task, if there is one, for at most 5 s.
StopEndpoint ==
    \E h \in FirstFree(hpc, Stops) :
        /\ CallsMade < MaxCalls
        /\ is_running' = FALSE
        /\ processing_active' = FALSE
        /\ is_recording' = FALSE
        /\ IF processing_task # NoTask
           THEN /\ hP' = [hP EXCEPT ![h] = processing_task]
                /\ hpc' = [hpc EXCEPT ![h] = "waitP"]
                /\ UNCHANGED <<audio_queue, cleared, tcancel, hT>>
           ELSE StopTail(h)
        /\ UNCHANGED <<processing_task, transcription_task, tpc, tawait, ppc,
                       pcancel, captured, enqueued, evicted, transcribed>>
        /\ UNCHANGED <<poolVars, bufVars, voiceVars, logVars, diarVars, alignVars, transVars, elbowVars, acqVars, vadVars, overlapped>>

\* The consumer ended within the 5 s.
HWaitPDone(h) ==
    /\ hpc[h] = "waitP"
    /\ ppc[hP[h]] = "done"
    /\ StopTail(h)
    /\ UNCHANGED <<is_running, processing_active, processing_task,
                   transcription_task, is_recording, tpc, tawait, ppc, pcancel,
                   captured, enqueued, evicted, transcribed>>
    /\ UNCHANGED <<poolVars, bufVars, voiceVars, logVars, diarVars, alignVars, transVars, elbowVars, acqVars, vadVars, overlapped>>

\* The 5 s are over and the consumer has not ended: wait_for cancels it and
\* waits for it to end.  The consumer can take that long only inside an engine
\* call or inside a timed wait on the empty queue; a consumer that is ready to
\* run is run by the event loop before a timer 5 s away.
HTimeout(h) ==
    /\ hpc[h] = "waitP"
    /\ \/ ppc[hP[h]] = "transcribe"
       \/ ppc[hP[h]] = "get" /\ audio_queue = <<>>
    /\ pcancel' = [pcancel EXCEPT ![hP[h]] = TRUE]
    /\ hpc' = [hpc EXCEPT ![h] = "cancelP"]
    /\ UNCHANGED <<is_running, processing_active, processing_task,
                   transcription_task, audio_queue, is_recording, tpc, tawait,
                   tcancel, ppc, hP, hT, captured, enqueued, evicted, cleared,
                   transcribed>>
    /\ UNCHANGED <<poolVars, bufVars, voiceVars, logVars, diarVars, alignVars, transVars, elbowVars, acqVars, vadVars, overlapped>>

\* wait_for raises TimeoutError (lines 176-178): self.processing_task, as it
\* is now, is cancelled; then the rest of the stop.
HTimeoutDone(h) ==
    /\ hpc[h] = "cancelP"
    /\ ppc[hP[h]] = "done"
    /\ pcancel' = IF processing_task # NoTask
                  THEN [pcancel EXCEPT ![processing_task] =
                          @ \/ ppc[processing_task] # "done"]
                  ELSE pcancel
    /\ StopTail(h)
    /\ UNCHANGED <<is_running, processing_active, processing_task,
                   transcription_task, is_recording, tpc, tawait, ppc,
                   captured, enqueued, evicted, transcribed>>
    /\ UNCHANGED <<poolVars, bufVars, voiceVars, logVars, diarVars, alignVars, transVars, elbowVars, acqVars, vadVars, overlapped>>

\* `await service.transcription_task` is over (lines 223-228).
HWaitTDone(h) ==
    /\ hpc[h] = "waitT"
    /\ tpc[hT[h]] = "done"
    /\ hpc' = [hpc EXCEPT ![h] = "done"]
    /\ hT' = [hT EXCEPT ![h] = NoTask]
    /\ UNCHANGED <<is_running, processing_active, processing_task,
                   transcription_task, audio_queue, is_recording, tpc, tawait,
                   tcancel, ppc, pcancel, hP, captured, enqueued, evicted,
                   cleared, transcribed>>
    /\ UNCHANGED <<poolVars, bufVars, voiceVars, logVars, diarVars, alignVars, transVars, elbowVars, acqVars, vadVars, overlapped>>

PipeInit ==
    /\ is_running = FALSE
    /\ processing_active = FALSE
    /\ processing_task = NoTask
    /\ transcription_task = NoTask
    /\ audio_queue = <<>>
    /\ is_recording = FALSE
    /\ tpc = [t \in Tasks |-> "none"]
    /\ tawait = [t \in Tasks |-> NoTask]
    /\ tcancel = [t \in Tasks |-> FALSE]
    /\ ppc = [t \in Tasks |-> "none"]
    /\ pcancel = [t \in Tasks |-> FALSE]
    /\ hpc = [h \in Stops |-> "none"]
    /\ hP = [h \in Stops |-> NoTask]
    /\ hT = [h \in Stops |-> NoTask]
    /\ captured = 0
    /\ enqueued = {}
    /\ evicted = {}
    /\ cleared = {}
    /\ transcribed = <<>>
    /\ overlapped = FALSE

PipeNext ==
    \/ StartEndpoint
    \/ StopEndpoint
    \/ \E t \in Tasks :
         \/ TStart(t)
         \/ TEnqueue(t)
         \/ TLoopExit(t)
         \/ TCancelled(t)
         \/ TAwaitDone(t)
         \/ PStart(t)
         \/ PGet(t)
         \/ PTimeout(t)
         \/ PTranscribeDone(t)
         \/ PCancelled(t)
    \/ \E h \in Stops :
         \/ HWaitPDone(h)
         \/ HTimeout(h)
         \/ HTimeoutDone(h)
         \/ HWaitTDone(h)

(***************************************************************************)
(* src/audio.py: the voicing decision of the capture loop                  *)
(*                                                                         *)
(* Sample values are counted in units of 0.001, the amplitude floor of     *)
(* line 94.  The pipeline is running throughout; starting and stopping it  *)
(* is the subject of SpecPipe.                                             *)
(***************************************************************************)
Levels == (0 - MaxLevel)..MaxLevel
Abs(x) == IF x >= 0 THEN x ELSE 0 - x

\* The segments the device is made to deliver: silence followed by a steady
\* level, and tones that swing between +a and -a.
SteadySegments ==
    {[i \in 1..VoiceLen |-> IF i <= k THEN 0 ELSE a] : k \in 0..VoiceLen, a \in Levels}
ToneSegments ==
    {[i \in 1..VoiceLen |-> IF i % 2 = 1 THEN a ELSE 0 - a] : a \in 1..MaxLevel}
Segments == SteadySegments \cup ToneSegments

IsSilent(seg) == \A i \in 1..Len(seg) : seg[i] = 0

\* (audio_data * 32767).astype(np.int16) (line 41): the cast truncates
\* towards zero.
to_int16(x) ==
    IF x >= 0 THEN (x * 32767) \div 1000 ELSE 0 - (((0 - x) * 32767) \div 1000)

\* audio_int16[i:i + self.vad_frame_size] (line 48), i counted from 0
vad_frame(seg, i) == [j \in 1..VadFrameLen |-> to_int16(seg[i + j])]

\* self.vad.is_speech(frame, rate) (line 51), a call into webrtcvad: a frame
\* without energy is not speech; any other frame is classified either way;
\* the call may raise.
vad_outcomes(frame) ==
    IF \A j \in 1..Len(frame) : frame[j] = 0
    THEN {"nonspeech", "error"}
    ELSE {"speech", "nonspeech", "error"}

\* np.max(np.abs(chunk_ready)) (line 91)
peak(seg) ==
    CHOOSE m \in {Abs(x) : x \in Range(seg)} : \A x \in Range(seg) : m >= Abs(x)

is_voiced_at_least(raised, voiced, total) ==
    IF raised THEN TRUE
    ELSE IF total > 0 THEN VoiceRatioDen * voiced >= total ELSE FALSE

is_voiced_default_true(raised, voiced, total) ==
    IF raised THEN TRUE
    ELSE IF total > 0 THEN VoiceRatioDen * voiced > total ELSE TRUE

\* What _is_voiced returns (lines 59-67): voiced_frames / total_frames > 0.1
\* if a frame was classified, False if none was, True if the body raised.
is_voiced(raised, voiced, total) ==
    IF raised THEN TRUE
    ELSE IF total > 0 THEN VoiceRatioDen * voiced > total ELSE FALSE

forwards_both(voiced, level) == voiced /\ level > AudioLevelFloor

forwards_always(voiced, level) == TRUE

\* self._is_voiced(chunk_ready) or audio_level > 0.001 (line 94)
forwards(voiced, level) == voiced \/ level > AudioLevelFloor

\* _get_next_chunk returns a chunk; its level is taken and _is_voiced begins:
\* the conversion and the loop's first test (lines 87-47).
VoiceTake ==
    /\ vpc = "idle"
    /\ vtaken < MaxSegments
    /\ \E seg \in Segments :
         /\ vseg' = seg
         /\ audio_level' = peak(seg)
    /\ vtaken' = vtaken + 1
    /\ vi' = 0
    /\ voiced_frames' = 0
    /\ total_frames' = 0
    /\ heardSpeech' = 0
    /\ heardAny' = 0
    /\ vpc' = "vad"
    /\ UNCHANGED <<chunks_processed, vqueue, vsent, skippedSilent>>
    /\ UNCHANGED <<poolVars, pipeVars, bufVars, logVars, diarVars, alignVars, transVars, elbowVars, acqVars, vadVars>>

\* One turn of `for i in range(0, len(audio_int16) - self.vad_frame_size,
\* self.vad_frame_size)` (lines 47-56): a frame that is_speech raises on is
\* passed over and not counted.
VadFrame ==
    /\ vpc = "vad"
    /\ vi < Len(vseg) - VadFrameLen
    /\ \E outcome \in vad_outcomes(vad_frame(vseg, vi)) :
         /\ voiced_frames' = voiced_frames + (IF outcome = "speech" THEN 1 ELSE 0)
         /\ total_frames' = total_frames + (IF outcome = "error" THEN 0 ELSE 1)
         /\ heardSpeech' = heardSpeech + (IF outcome = "speech" THEN 1 ELSE 0)
         /\ heardAny' = heardAny + (IF outcome = "error" THEN 0 ELSE 1)
    /\ vi' = vi + VadFrameLen
    /\ UNCHANGED <<vseg, vpc, audio_level, chunks_processed, vqueue, vsent,
                   vtaken, skippedSilent>>
    /\ UNCHANGED <<poolVars, pipeVars, bufVars, logVars, diarVars, alignVars, transVars, elbowVars, acqVars, vadVars>>

\* What is put on the queue for a segment: the two conditions as the device and
\* the VAD had them, whether the segment was all zeros, and whether it was a
\* tone above the floor.
Entry ==
    [ratio |-> heardAny > 0 /\ 10 * heardSpeech > heardAny,
     level |-> \E i \in 1..Len(vseg) : Abs(vseg[i]) > 1,
     silent |-> IsSilent(vseg),
     tone |-> vseg \in ToneSegments /\ Abs(vseg[1]) > 1]

\* The loop is over and _is_voiced returns (lines 59-63); nothing in its body
\* raises on an ndarray chunk, is_speech being inside a try of its own.  The
\* segment is yielded and put on the queue (lines 94-97, main.py 95-108), or it
\* is skipped (line 99).
VoiceDecide ==
    /\ vpc = "vad"
    /\ vi >= Len(vseg) - VadFrameLen
    /\ IF forwards(is_voiced(FALSE, voiced_frames, total_frames), audio_level)
       THEN /\ chunks_processed' = chunks_processed + 1
            /\ vqueue' = enqueue_chunk(vqueue, Entry).queue
            /\ UNCHANGED skippedSilent
       ELSE /\ skippedSilent' = (skippedSilent \/ IsSilent(vseg))
            /\ UNCHANGED <<chunks_processed, vqueue>>
    /\ vpc' = "idle"
    /\ vseg' = <<>>
    /\ audio_level' = 0
    /\ vi' = 0
    /\ voiced_frames' = 0
    /\ total_frames' = 0
    /\ heardSpeech' = 0
    /\ heardAny' = 0
    /\ UNCHANGED <<vsent, vtaken>>
    /\ UNCHANGED <<poolVars, pipeVars, bufVars, logVars, diarVars, alignVars, transVars, elbowVars, acqVars, vadVars>>

\* The consumer takes an entry and passes it to the transcriber
\* (main.py 132-139).
VoiceConsume ==
    /\ vqueue # <<>>
    /\ LET g == queue_get(vqueue) IN
         /\ vqueue' = g.queue
         /\ vsent' = Append(vsent, g.item)
    /\ UNCHANGED <<vseg, vpc, audio_level, vi, voiced_frames, total_frames,
                   chunks_processed, vtaken, heardSpeech, heardAny, skippedSilent>>
    /\ UNCHANGED <<poolVars, pipeVars, bufVars, logVars, diarVars, alignVars, transVars, elbowVars, acqVars, vadVars>>

VoiceInit ==
    /\ vseg = <<>>
    /\ vpc = "idle"
    /\ audio_level = 0
    /\ vi = 0
    /\ voiced_frames = 0
    /\ total_frames = 0
    /\ chunks_processed = 0
    /\ vqueue = <<>>
    /\ vsent = <<>>
    /\ vtaken = 0
    /\ heardSpeech = 0
    /\ heardAny = 0
    /\ skippedSilent = FALSE

VoiceNext ==
    \/ VoiceTake
    \/ VadFrame
    \/ VoiceDecide
    \/ VoiceConsume

(***************************************************************************)
(* src/main.py: the rolling result log                                     *)
(***************************************************************************)
append_result_unbounded(log, r) == Append(log, r)

\* transcription_results.append(result); if len(...) > 50: pop(0)
\* (lines 143-147)
append_result(log, r) ==
    LET a == Append(log, r) IN IF Len(a) > ResultCap THEN Tail(a) ELSE a

\* A transcription returns in the consumer (lines 139-147): a result with text
\* is appended and the log is cut back; no await separates the two.
ResultAppend ==
    /\ results_made < MaxResults
    /\ results_made' = results_made + 1
    /\ \E has_text \in BOOLEAN :
         IF has_text
         THEN /\ transcription_results' =
                    append_result(transcription_results, results_made + 1)
              /\ results_popped' = results_popped \cup
                    (Range(transcription_results) \ Range(transcription_results'))
         ELSE UNCHANGED <<transcription_results, results_popped>>
    /\ UNCHANGED <<poolVars, pipeVars, bufVars, voiceVars, diarVars, alignVars, transVars, elbowVars, acqVars, vadVars>>

\* DELETE /results (lines 239-244)
ClearResults ==
    /\ transcription_results # <<>>
    /\ transcription_results' = <<>>
    /\ UNCHANGED <<results_made, results_popped>>
    /\ UNCHANGED <<poolVars, pipeVars, bufVars, voiceVars, diarVars, alignVars, transVars, elbowVars, acqVars, vadVars>>

LogInit ==
    /\ transcription_results = <<>>
    /\ results_made = 0
    /\ results_popped = {}

LogNext ==
    \/ ResultAppend
    \/ ClearResults

(***************************************************************************)
(* src/diarization.py: _fallback_diarization                               *)
(*                                                                         *)
(* Times are kept in samples: a time t of the code is t * sample_rate      *)
(* here, so the end of the audio, len(audio_data) / sample_rate, is        *)
(* Len(daudio).  Speaker_A, Speaker_B, ... are the labels 0, 1, ...        *)
(* Feature extraction, StandardScaler and KMeans are library calls: what   *)
(* they return or raise is an input of the step that calls them.           *)
(***************************************************************************)
\* the sample rate handed to the fallback diarization: an even number, as
\* SAMPLE_RATE is
DiarRate == 2 * DiarHalf

\* audio_data: k quiet samples followed by samples of one level
DiarAudios ==
    UNION {{[i \in 1..n |-> IF i <= k THEN 0 ELSE a] :
               k \in 0..n, a \in 1..MaxLevel} : n \in 0..MaxAudioLen}

\* lines 166-167
segment_length(sample_rate) == sample_rate
overlap(sample_rate) == segment_length(sample_rate) \div 2

RECURSIVE SumSq(_)
SumSq(seg) == IF seg = <<>> THEN 0 ELSE Head(seg) * Head(seg) + SumSq(Tail(seg))

\* np.sqrt(np.mean(segment**2)) < 0.001 (lines 193-194), squared
rms_quiet(seg) == SumSq(seg) < Len(seg) * RmsFloor * RmsFloor

on_exception_empty(audio) ==
    [speakers |-> <<>>, segments |-> <<>>, num_speakers |-> 0]

\* the single-speaker dictionary of lines 171-180, 223-232
single_speaker(audio) ==
    [speakers |-> <<0>>,
     segments |-> <<[start |-> 0, end |-> Len(audio), speaker |-> 0]>>,
     num_speakers |-> 1]

\* the handler of lines 273-287
on_exception(audio) == single_speaker(audio)

too_few_two(n) == n < 2

\* len(features) < 3 (line 221)
too_few(n) == n < 3

\* np.diff
diff(s) == [i \in 1..(Len(s) - 1) |-> s[i + 1] - s[i]]

\* np.argmax: the first position of the largest entry, counted from 0
argmax(s) ==
    (CHOOSE i \in 1..Len(s) :
        /\ \A j \in 1..Len(s) : s[j] <= s[i]
        /\ \A j \in 1..(i - 1) : s[j] < s[i]) - 1

determine_optimal_clusters_plus_one(n, max_clusters_arg, points, raised) ==
    IF n < 6 THEN 1
    ELSE LET max_clusters == Min(max_clusters_arg, n \div 3) IN
         IF max_clusters < 2 THEN 1
         ELSE IF raised THEN 2
         ELSE IF Len(points) >= 3 /\ Len(diff(diff(points))) > 0
              THEN Min(argmax(diff(diff(points))) + 1, max_clusters)
              ELSE 2

determine_optimal_clusters_default_three(n, max_clusters_arg, points, raised) ==
    IF n < 6 THEN 1
    ELSE LET max_clusters == Min(max_clusters_arg, n \div 3) IN
         IF max_clusters < 2 THEN 1
         ELSE IF raised THEN 3
         ELSE IF Len(points) >= 3 /\ Len(diff(diff(points))) > 0
              THEN Min(argmax(diff(diff(points))) + 2, max_clusters)
              ELSE 3

determine_optimal_clusters_default_one(n, max_clusters_arg, points, raised) ==
    IF n < 6 THEN 1
    ELSE LET max_clusters == Min(max_clusters_arg, n \div 3) IN
         IF max_clusters < 2 THEN 1
         ELSE IF raised THEN 2
         ELSE IF Len(points) >= 3 /\ Len(diff(diff(points))) > 0
              THEN Min(argmax(diff(diff(points))) + 2, max_clusters)
              ELSE 1

\* _determine_optimal_clusters (lines 364-398); points are the inertias the
\* KMeans fits of lines 377-380 gave, raised says that one of them raised
determine_optimal_clusters(n, max_clusters_arg, points, raised) ==
    IF n < 6 THEN 1
    ELSE LET max_clusters == Min(max_clusters_arg, n \div 3) IN
         IF max_clusters < 2 THEN 1
         ELSE IF raised THEN 2
         ELSE IF Len(points) >= 3 /\ Len(diff(diff(points))) > 0
              THEN Min(argmax(diff(diff(points))) + 2, max_clusters)
              ELSE 2

\* the try of lines 373-394 is entered
count_fits(n, max_clusters_arg) ==
    n >= 6 /\ Min(max_clusters_arg, n \div 3) >= 2

\* _merge_adjacent_segments (lines 400-420); the tolerance of 0.5 seconds is
\* sample_rate / 2 samples
RECURSIVE merge_from(_, _, _, _)
merge_from(merged, current, rest, sample_rate) ==
    IF rest = <<>> THEN Append(merged, current)
    ELSE LET next == Head(rest) IN
         IF /\ current.speaker = next.speaker
            /\ 2 * Abs(current.end - next.start) < sample_rate
         THEN merge_from(merged, [current EXCEPT !.end = next.end],
                         Tail(rest), sample_rate)
         ELSE merge_from(Append(merged, current), next, Tail(rest), sample_rate)

merge_adjacent_all(segments, sample_rate) ==
    IF Len(segments) <= 1 THEN segments
    ELSE <<[segments[1] EXCEPT !.end = segments[Len(segments)].end]>>

merge_adjacent_segments(segments, sample_rate) ==
    IF Len(segments) <= 1 THEN segments
    ELSE merge_from(<<>>, segments[1], Tail(segments), sample_rate)

NoResult == [speakers |-> <<>>, segments |-> <<>>, num_speakers |-> 0 - 1]

\* the dictionary of line 114; it has no num_speakers entry, 0 stands for that
empty_diarization == [speakers |-> <<>>, segments |-> <<>>, num_speakers |-> 0]

\* audio_data / np.max(np.abs(audio_data)) (lines 105-106)
normalize(audio) ==
    IF audio # <<>> /\ peak(audio) > 0
    THEN [i \in 1..Len(audio) |-> (audio[i] * FullScale) \div peak(audio)]
    ELSE audio

\* what the pretrained model can report for an audio: nothing, one turn, or
\* two turns of two speakers
PyannoteResults(audio) ==
    {empty_diarization, single_speaker(audio),
     [speakers |-> <<0, 1>>,
      segments |-> <<[start |-> 0, end |-> Len(audio) \div 2, speaker |-> 0],
                     [start |-> Len(audio) \div 2, end |-> Len(audio),
                      speaker |-> 1]>>,
      num_speakers |-> 2]}

\* load_model (lines 32-68) leaves a pipeline or none.
DiarLoad ==
    /\ dpc = "unloaded"
    /\ \E p \in BOOLEAN : pipeline' = p
    /\ dpc' = "idle"
    /\ UNCHANGED <<daudio, di, segment_times, n_clusters, dsegments, dresult,
                   dfailed, dclustered, pfailed>>
    /\ UNCHANGED <<poolVars, pipeVars, bufVars, voiceVars, logVars, alignVars, transVars, elbowVars, acqVars, vadVars>>

\* A call of diarize_audio on a loaded diarization (lines 70-89).
DiarCall ==
    /\ dpc = "idle"
    /\ \E audio \in DiarAudios : daudio' = audio
    /\ dpc' = IF pipeline THEN "tempfile" ELSE "fallback"
    /\ UNCHANGED <<di, segment_times, n_clusters, dsegments, dresult, dfailed,
                   dclustered, pipeline, pfailed>>
    /\ UNCHANGED <<poolVars, pipeVars, bufVars, voiceVars, logVars, alignVars, transVars, elbowVars, acqVars, vadVars>>

\* a step of the pretrained path raised: the handler of lines 156-158
PyRaise(step) ==
    /\ pfailed' = pfailed \cup {step}
    /\ dpc' = "fallback"
    /\ UNCHANGED dresult

\* NamedTemporaryFile (lines 93-97).
PyTempFile ==
    /\ dpc = "tempfile"
    /\ \E raised \in BOOLEAN :
         IF raised THEN PyRaise("tempfile")
         ELSE /\ dpc' = "write"
              /\ UNCHANGED <<dresult, pfailed>>
    /\ UNCHANGED <<daudio, di, segment_times, n_clusters, dsegments, dfailed,
                   dclustered, pipeline>>
    /\ UNCHANGED <<poolVars, pipeVars, bufVars, voiceVars, logVars, alignVars, transVars, elbowVars, acqVars, vadVars>>

\* The audio is normalised and written (lines 100-109); the normalised audio
\* is what the handler passes on when the write raises.
PyWrite ==
    /\ dpc = "write"
    /\ daudio' = normalize(daudio)
    /\ \E raised \in BOOLEAN :
         IF raised THEN PyRaise("write")
         ELSE /\ dpc' = "check"
              /\ UNCHANGED <<dresult, pfailed>>
    /\ UNCHANGED <<di, segment_times, n_clusters, dsegments, dfailed,
                   dclustered, pipeline>>
    /\ UNCHANGED <<poolVars, pipeVars, bufVars, voiceVars, logVars, alignVars, transVars, elbowVars, acqVars, vadVars>>

\* The file is looked for (lines 111-114): a missing or empty file returns
\* the empty dictionary.
PyCheck ==
    /\ dpc = "check"
    /\ \E missing \in BOOLEAN :
         IF missing
         THEN /\ pfailed' = pfailed \cup {"nofile"}
              /\ dresult' = empty_diarization
              /\ dpc' = "returned_pretrained"
         ELSE /\ dpc' = "run"
              /\ UNCHANGED <<dresult, pfailed>>
    /\ UNCHANGED <<daudio, di, segment_times, n_clusters, dsegments, dfailed,
                   dclustered, pipeline>>
    /\ UNCHANGED <<poolVars, pipeVars, bufVars, voiceVars, logVars, alignVars, transVars, elbowVars, acqVars, vadVars>>

\* The pipeline is called (lines 119-121).
PyRun ==
    /\ dpc = "run"
    /\ \E raised \in BOOLEAN :
         IF raised THEN PyRaise("model")
         ELSE /\ dpc' = "process"
              /\ UNCHANGED <<dresult, pfailed>>
    /\ UNCHANGED <<daudio, di, segment_times, n_clusters, dsegments, dfailed,
                   dclustered, pipeline>>
    /\ UNCHANGED <<poolVars, pipeVars, bufVars, voiceVars, logVars, alignVars, transVars, elbowVars, acqVars, vadVars>>

\* The tracks are turned into the result (lines 124-146).
PyProcess ==
    /\ dpc = "process"
    /\ \E raised \in BOOLEAN :
         IF raised THEN PyRaise("process")
         ELSE /\ \E r \in PyannoteResults(daudio) : dresult' = r
              /\ dpc' = "returned_pretrained"
              /\ UNCHANGED pfailed
    /\ UNCHANGED <<daudio, di, segment_times, n_clusters, dsegments, dfailed,
                   dclustered, pipeline>>
    /\ UNCHANGED <<poolVars, pipeVars, bufVars, voiceVars, logVars, alignVars, transVars, elbowVars, acqVars, vadVars>>

\* _fallback_diarization is entered (lines 160-180).
DiarFallback ==
    /\ dpc = "fallback"
    /\ IF Len(daudio) < segment_length(DiarRate)
       THEN /\ dpc' = "returned"
            /\ dresult' = single_speaker(daudio)
       ELSE /\ dpc' = "windows"
            /\ UNCHANGED dresult
    /\ UNCHANGED <<daudio, di, segment_times, n_clusters, dsegments, dfailed,
                   dclustered, pipeline, pfailed>>
    /\ UNCHANGED <<poolVars, pipeVars, bufVars, voiceVars, logVars, alignVars, transVars, elbowVars, acqVars, vadVars>>

window_times_swapped(i, sample_rate) ==
    [start |-> i + segment_length(sample_rate), end |-> i]

\* segment_times.append({"start": i / sample_rate, "end": (i +
\* segment_length) / sample_rate}) (lines 215-218)
window_times(i, sample_rate) ==
    [start |-> i, end |-> i + segment_length(sample_rate)]

\* One pass of the loop of lines 187-219.
DiarWindow ==
    /\ dpc = "windows"
    /\ di < Len(daudio) - segment_length(DiarRate)
    /\ LET segment == SubSeq(daudio, di + 1, di + segment_length(DiarRate)) IN
       \E outcome \in {"features", "none", "raise"} :
         CASE outcome = "raise" ->
                /\ dpc' = "except"
                /\ dfailed' = dfailed \cup {"windowing"}
                /\ UNCHANGED <<di, segment_times>>
           [] outcome = "none" ->
                \* _extract_voice_features raised and returned None
                \* (lines 360-362): the window is passed over
                /\ ~rms_quiet(segment)
                /\ dfailed' = dfailed \cup {"features"}
                /\ di' = di + (segment_length(DiarRate) - overlap(DiarRate))
                /\ UNCHANGED <<dpc, segment_times>>
           [] outcome = "features" ->
                /\ segment_times' =
                      IF rms_quiet(segment) THEN segment_times
                      ELSE Append(segment_times, window_times(di, DiarRate))
                /\ di' = di + (segment_length(DiarRate) - overlap(DiarRate))
                /\ UNCHANGED <<dpc, dfailed>>
    /\ UNCHANGED <<daudio, n_clusters, dsegments, dresult, dclustered>>
    /\ UNCHANGED <<pipeline, pfailed>>
    /\ UNCHANGED <<poolVars, pipeVars, bufVars, voiceVars, logVars, alignVars, transVars, elbowVars, acqVars, vadVars>>

\* The loop has ended: the test of line 221.
DiarEnough ==
    /\ dpc = "windows"
    /\ ~(di < Len(daudio) - segment_length(DiarRate))
    /\ IF too_few(Len(segment_times))
       THEN /\ dpc' = "returned"
            /\ dresult' = single_speaker(daudio)
       ELSE /\ dpc' = "scale"
            /\ UNCHANGED dresult
    /\ UNCHANGED <<daudio, di, segment_times, n_clusters, dsegments, dfailed,
                   dclustered>>
    /\ UNCHANGED <<pipeline, pfailed>>
    /\ UNCHANGED <<poolVars, pipeVars, bufVars, voiceVars, logVars, alignVars, transVars, elbowVars, acqVars, vadVars>>

\* nan_to_num and StandardScaler (lines 235-240).
DiarScale ==
    /\ dpc = "scale"
    /\ \E raised \in BOOLEAN :
         IF raised
         THEN /\ dpc' = "except"
              /\ dfailed' = dfailed \cup {"standardisation"}
         ELSE /\ dpc' = "count"
              /\ UNCHANGED dfailed
    /\ UNCHANGED <<daudio, di, segment_times, n_clusters, dsegments, dresult,
                   dclustered>>
    /\ UNCHANGED <<pipeline, pfailed>>
    /\ UNCHANGED <<poolVars, pipeVars, bufVars, voiceVars, logVars, alignVars, transVars, elbowVars, acqVars, vadVars>>

\* the inertias a run of lines 377-380 can give for k = 1..max_clusters
Inertias(n) ==
    LET max_clusters == Min(Min(MAX_SPEAKERS, n \div 2), n \div 3) IN
    IF max_clusters < 1 THEN {<<>>}
    ELSE [1..max_clusters -> 0..MaxLevel]

\* _determine_optimal_clusters is called (line 243); it catches what its
\* fits raise.
DiarCount ==
    /\ dpc = "count"
    /\ LET n == Len(segment_times) IN
       \E raised \in BOOLEAN, points \in Inertias(n) :
         /\ raised => count_fits(n, Min(MAX_SPEAKERS, n \div 2))
         /\ n_clusters' = determine_optimal_clusters(
                              n, Min(MAX_SPEAKERS, n \div 2), points, raised)
         /\ dfailed' = IF raised THEN dfailed \cup {"count"} ELSE dfailed
    /\ dpc' = "cluster"
    /\ UNCHANGED <<daudio, di, segment_times, dsegments, dresult, dclustered>>
    /\ UNCHANGED <<pipeline, pfailed>>
    /\ UNCHANGED <<poolVars, pipeVars, bufVars, voiceVars, logVars, alignVars, transVars, elbowVars, acqVars, vadVars>>

\* KMeans and the segments built from its labels (lines 246-259).
DiarCluster ==
    /\ dpc = "cluster"
    /\ dclustered' = TRUE
    /\ \E raised \in BOOLEAN :
         IF raised
         THEN /\ dpc' = "except"
              /\ dfailed' = dfailed \cup {"clustering"}
              /\ UNCHANGED dsegments
         ELSE /\ \E speaker_labels \in
                     [1..Len(segment_times) -> 0..(n_clusters - 1)] :
                   dsegments' = [k \in 1..Len(segment_times) |->
                                   [start |-> segment_times[k].start,
                                    end |-> segment_times[k].end,
                                    speaker |-> speaker_labels[k]]]
              /\ dpc' = "merge"
              /\ UNCHANGED dfailed
    /\ UNCHANGED <<daudio, di, segment_times, n_clusters, dresult>>
    /\ UNCHANGED <<pipeline, pfailed>>
    /\ UNCHANGED <<poolVars, pipeVars, bufVars, voiceVars, logVars, alignVars, transVars, elbowVars, acqVars, vadVars>>

\* _merge_adjacent_segments and the return (lines 262-271).
DiarMerge ==
    /\ dpc = "merge"
    /\ \E raised \in BOOLEAN :
         IF raised
         THEN /\ dpc' = "except"
              /\ dfailed' = dfailed \cup {"merging"}
              /\ UNCHANGED dresult
         ELSE /\ dpc' = "returned"
              /\ dresult' =
                    [speakers |-> [k \in 1..n_clusters |-> k - 1],
                     segments |-> merge_adjacent_segments(dsegments, DiarRate),
                     num_speakers |-> n_clusters]
              /\ UNCHANGED dfailed
    /\ UNCHANGED <<daudio, di, segment_times, n_clusters, dsegments, dclustered>>
    /\ UNCHANGED <<pipeline, pfailed>>
    /\ UNCHANGED <<poolVars, pipeVars, bufVars, voiceVars, logVars, alignVars, transVars, elbowVars, acqVars, vadVars>>

\* except Exception (lines 273-287).
DiarExcept ==
    /\ dpc = "except"
    /\ dpc' = "returned"
    /\ dresult' = on_exception(daudio)
    /\ UNCHANGED <<daudio, di, segment_times, n_clusters, dsegments, dfailed,
                   dclustered>>
    /\ UNCHANGED <<pipeline, pfailed>>
    /\ UNCHANGED <<poolVars, pipeVars, bufVars, voiceVars, logVars, alignVars, transVars, elbowVars, acqVars, vadVars>>

DiarInit ==
    /\ daudio = <<>>
    /\ dpc = "unloaded"
    /\ pipeline = FALSE
    /\ pfailed = {}
    /\ di = 0
    /\ segment_times = <<>>
    /\ n_clusters = 0
    /\ dsegments = <<>>
    /\ dresult = NoResult
    /\ dfailed = {}
    /\ dclustered = FALSE

DiarNext ==
    \/ DiarLoad
    \/ DiarCall
    \/ PyTempFile
    \/ PyWrite
    \/ PyCheck
    \/ PyRun
    \/ PyProcess
    \/ DiarFallback
    \/ DiarWindow
    \/ DiarEnough
    \/ DiarScale
    \/ DiarCount
    \/ DiarCluster
    \/ DiarMerge
    \/ DiarExcept

(***************************************************************************)
(* src/diarization.py: assign_speakers_to_transcription                    *)
(*                                                                         *)
(* Times are integers; speakers are labels 0, 1, ... as in the fallback    *)
(* diarization, and "Unknown" is the label Unknown.                        *)
(***************************************************************************)
\* best_speaker = "Unknown" (line 446; transcribe.py line 130)
Unknown == 0 - 1

AlignSpeakers == 0..1

\* the turns a diarization returns: start < end, in order of their starts
Turns ==
    {[start |-> a, end |-> b, speaker |-> s] :
        a \in 0..MaxTime, b \in 0..MaxTime, s \in AlignSpeakers}

TurnLists ==
    {ts \in UNION {[1..n -> Turns] : n \in 0..MaxTurns} :
        /\ \A k \in 1..Len(ts) : ts[k].start < ts[k].end
        /\ \A k \in 1..(Len(ts) - 1) : ts[k].start <= ts[k + 1].start}

\* the segments _transcribe_sync returns (transcribe.py lines 126-131):
\* start <= end, one after the other, speaker "Unknown"
Transcripts ==
    {[start |-> a, end |-> b, speaker |-> Unknown] :
        a \in 0..MaxTime, b \in 0..MaxTime}

TranscriptLists ==
    {ts \in UNION {[1..n -> Transcripts] : n \in 0..MaxTrans} :
        /\ \A k \in 1..Len(ts) : ts[k].start <= ts[k].end
        /\ \A k \in 1..(Len(ts) - 1) : ts[k].end <= ts[k + 1].start}

\* lines 454-456
overlap_duration(trans_seg, dia_seg) ==
    Max(0, Min(trans_seg.end, dia_seg.end) - Max(trans_seg.start, dia_seg.start))

replaces_best_last(duration, max_overlap) == duration >= max_overlap

\* overlap_duration > max_overlap (line 458)
replaces_best(duration, max_overlap) == duration > max_overlap

\* the loop of lines 449-460 over the turns not yet looked at
RECURSIVE best_from(_, _, _, _)
best_from(trans_seg, rest, best_speaker, max_overlap) ==
    IF rest = <<>> THEN best_speaker
    ELSE LET dia_seg == Head(rest)
             duration == overlap_duration(trans_seg, dia_seg) IN
         IF replaces_best(duration, max_overlap)
         THEN best_from(trans_seg, Tail(rest), dia_seg.speaker, duration)
         ELSE best_from(trans_seg, Tail(rest), best_speaker, max_overlap)

best_speaker_of_last(trans_seg, turns) ==
    LET best == {k \in 1..Len(turns) :
                    /\ overlap_duration(trans_seg, turns[k]) > 0
                    /\ \A j \in 1..Len(turns) :
                          overlap_duration(trans_seg, turns[j]) <=
                          overlap_duration(trans_seg, turns[k])} IN
    IF best = {} THEN Unknown
    ELSE turns[CHOOSE k \in best : \A j \in best : j <= k].speaker

\* lines 446-460
best_speaker_of(trans_seg, turns) == best_from(trans_seg, turns, Unknown, 0)

\* assign_speakers_to_transcription (lines 422-468): with no diarization
\* segments the transcript segments are returned as they are (line 437),
\* otherwise each gets the speaker its pass of the loop of lines 441-465 finds
assign_speakers_to_transcription(transcription_segments, segments) ==
    IF segments = <<>> THEN transcription_segments
    ELSE [i \in 1..Len(transcription_segments) |->
            [transcription_segments[i] EXCEPT
                !.speaker = best_speaker_of(transcription_segments[i], segments)]]

\* The transcription returns its segments (transcribe.py lines 52-59).
AlignTranscribed ==
    /\ apc = "idle"
    /\ \E ts \in TranscriptLists : trans_segments' = ts
    /\ apc' = "transcribed"
    /\ UNCHANGED <<dia_segments, updated_segments>>
    /\ UNCHANGED <<poolVars, pipeVars, bufVars, voiceVars, logVars, diarVars, transVars, elbowVars, acqVars, vadVars>>

\* The diarization returns its turns and assign_speakers_to_transcription is
\* called on both (transcribe.py lines 61-66).
AlignCall ==
    /\ apc = "transcribed"
    /\ \E ds \in TurnLists :
         /\ dia_segments' = ds
         /\ updated_segments' = assign_speakers_to_transcription(trans_segments, ds)
    /\ apc' = "returned"
    /\ UNCHANGED trans_segments
    /\ UNCHANGED <<poolVars, pipeVars, bufVars, voiceVars, logVars, diarVars, transVars, elbowVars, acqVars, vadVars>>

AlignInit ==
    /\ trans_segments = <<>>
    /\ dia_segments = <<>>
    /\ updated_segments = <<>>
    /\ apc = "idle"

AlignNext ==
    \/ AlignTranscribed
    \/ AlignCall

(***************************************************************************)
(* src/transcribe.py: transcribe and _transcribe_sync, called by the        *)
(* consumer loop of src/main.py                                            *)
(*                                                                         *)
(* The engine (mlx_whisper) and the diarization are library calls: whether *)
(* they return text, return none or raise is an input of the step.  A      *)
(* result is the set of its keys, whether its text is non-empty, the       *)
(* number of its segments and its language.                                *)
(***************************************************************************)
\* LANGUAGE (config.py line 16), and a language the engine reports
LANGUAGE == "ja"
Languages == {LANGUAGE, "en"}

NoEntry == 0
NoneResult == [keys |-> {}, text |-> FALSE, segments |-> 0, language |-> "none"]

empty_result_no_language(language) ==
    [keys |-> {"text", "segments"}, text |-> FALSE, segments |-> 0,
     language |-> "none"]

\* the dictionary of lines 76-80 and of lines 141-145
empty_result(language) ==
    [keys |-> {"text", "segments", "language"}, text |-> FALSE, segments |-> 0,
     language |-> language]

\* the dictionary of lines 133-137
sync_result(has_text, nsegments, language) ==
    [keys |-> {"text", "segments", "language"}, text |-> has_text,
     segments |-> nsegments, language |-> language]

\* The capture side puts an entry into the queue (main.py lines 100-114).
TrEnqueue ==
    /\ tr_made < MaxEntries
    /\ tr_made' = tr_made + 1
    /\ tr_queue' = Append(tr_queue, tr_made + 1)
    /\ UNCHANGED <<is_loaded, tr_pc, tr_chunk, tr_result, tr_threw, tr_handled>>
    /\ UNCHANGED <<poolVars, pipeVars, bufVars, voiceVars, logVars, diarVars, alignVars, elbowVars, acqVars, vadVars>>

\* audio_queue.get() returns an entry (main.py lines 132-135).
TrGet ==
    /\ tr_pc = "get"
    /\ tr_queue # <<>>
    /\ tr_chunk' = Head(tr_queue)
    /\ tr_queue' = Tail(tr_queue)
    /\ tr_pc' = "call"
    /\ UNCHANGED <<is_loaded, tr_result, tr_threw, tr_handled, tr_made>>
    /\ UNCHANGED <<poolVars, pipeVars, bufVars, voiceVars, logVars, diarVars, alignVars, elbowVars, acqVars, vadVars>>

\* transcribe is entered (main.py line 139; transcribe.py lines 36-48): an
\* unloaded model raises to the consumer, whose handler goes round the loop
\* (main.py lines 158-161); a failure of the conversion or the normalisation
\* is caught at line 74.
TrCall ==
    /\ tr_pc = "call"
    /\ IF ~is_loaded
       THEN /\ tr_pc' = "get"
            /\ tr_threw' = tr_threw \cup {tr_chunk}
            /\ tr_handled' = Append(tr_handled,
                                    [entry |-> tr_chunk, result |-> NoneResult,
                                     logged |-> FALSE])
            /\ tr_chunk' = NoEntry
       ELSE /\ \E raised \in BOOLEAN :
                 IF raised
                 THEN /\ tr_pc' = "except"
                      /\ tr_threw' = tr_threw \cup {tr_chunk}
                 ELSE /\ tr_pc' = "sync"
                      /\ UNCHANGED tr_threw
            /\ UNCHANGED <<tr_handled, tr_chunk>>
    /\ UNCHANGED <<is_loaded, tr_queue, tr_result, tr_made>>
    /\ UNCHANGED <<poolVars, pipeVars, bufVars, voiceVars, logVars, diarVars, alignVars, elbowVars, acqVars, vadVars>>

\* _transcribe_sync in the executor (transcribe.py lines 51-56, 82-145): the
\* engine returns or raises; a raise is caught at line 139.
TrSync ==
    /\ tr_pc = "sync"
    /\ \E raised \in BOOLEAN, has_text \in BOOLEAN, nsegments \in 0..1,
          language \in Languages :
         IF raised
         THEN /\ tr_result' = empty_result(LANGUAGE)
              /\ tr_threw' = tr_threw \cup {tr_chunk}
         ELSE /\ tr_result' = sync_result(has_text, nsegments, language)
              /\ UNCHANGED tr_threw
    /\ tr_pc' = "diarize"
    /\ UNCHANGED <<is_loaded, tr_queue, tr_chunk, tr_handled, tr_made>>
    /\ UNCHANGED <<poolVars, pipeVars, bufVars, voiceVars, logVars, diarVars, alignVars, elbowVars, acqVars, vadVars>>

\* The diarization of a result with segments, and the return (transcribe.py
\* lines 58-72): enabled says that a SpeakerDiarization exists.
TrDiarize ==
    /\ tr_pc = "diarize"
    /\ \E enabled \in BOOLEAN, raised \in BOOLEAN :
         IF enabled /\ tr_result.segments > 0
         THEN IF raised
              THEN /\ tr_pc' = "except"
                   /\ tr_threw' = tr_threw \cup {tr_chunk}
                   /\ UNCHANGED tr_result
              ELSE /\ tr_pc' = "handle"
                   /\ tr_result' =
                         [tr_result EXCEPT
                             !.keys = @ \cup {"speaker_summary", "diarization"}]
                   /\ UNCHANGED tr_threw
         ELSE /\ tr_pc' = "handle"
              /\ UNCHANGED <<tr_result, tr_threw>>
    /\ UNCHANGED <<is_loaded, tr_queue, tr_chunk, tr_handled, tr_made>>
    /\ UNCHANGED <<poolVars, pipeVars, bufVars, voiceVars, logVars, diarVars, alignVars, elbowVars, acqVars, vadVars>>

\* except Exception of transcribe (transcribe.py lines 74-80).
TrExcept ==
    /\ tr_pc = "except"
    /\ tr_result' = empty_result(LANGUAGE)
    /\ tr_pc' = "handle"
    /\ UNCHANGED <<is_loaded, tr_queue, tr_chunk, tr_threw, tr_handled, tr_made>>
    /\ UNCHANGED <<poolVars, pipeVars, bufVars, voiceVars, logVars, diarVars, alignVars, elbowVars, acqVars, vadVars>>

\* The consumer has the result (main.py lines 141-150) and goes round its
\* loop; a result with text goes to the result log.
TrHandle ==
    /\ tr_pc = "handle"
    /\ tr_handled' = Append(tr_handled,
                            [entry |-> tr_chunk, result |-> tr_result,
                             logged |-> tr_result.text])
    /\ tr_chunk' = NoEntry
    /\ tr_result' = NoneResult
    /\ tr_pc' = "get"
    /\ UNCHANGED <<is_loaded, tr_queue, tr_threw, tr_made>>
    /\ UNCHANGED <<poolVars, pipeVars, bufVars, voiceVars, logVars, diarVars, alignVars, elbowVars, acqVars, vadVars>>

\* initialize() has loaded the model (main.py line 73) and the consumer waits
\* at line 132.
TransInit ==
    /\ is_loaded = TRUE
    /\ tr_queue = <<>>
    /\ tr_pc = "get"
    /\ tr_chunk = NoEntry
    /\ tr_result = NoneResult
    /\ tr_threw = {}
    /\ tr_handled = <<>>
    /\ tr_made = 0

TransNext ==
    \/ TrEnqueue
    \/ TrGet
    \/ TrCall
    \/ TrSync
    \/ TrDiarize
    \/ TrExcept
    \/ TrHandle

(***************************************************************************)
(* src/diarization.py: _determine_optimal_clusters, step by step           *)
(*                                                                         *)
(* The inertia of a KMeans fit is an input of the step that runs the fit.  *)
(***************************************************************************)
\* max_clusters as line 243 passes it
max_clusters_arg_of(n) == Min(MAX_SPEAKERS, n \div 2)

\* max_clusters after line 369
max_clusters_of(n) == Min(max_clusters_arg_of(n), n \div 3)

\* The call of line 243, made with 3 windows or more, up to the early
\* returns (lines 364-375).
ElbowCall ==
    /\ epc = "idle"
    /\ \E n \in 3..MaxWindows :
         /\ features_n' = n
         /\ IF n < 6 \/ max_clusters_of(n) < 2
            THEN /\ epc' = "returned"
                 /\ chosen_k' = determine_optimal_clusters(
                                    n, max_clusters_arg_of(n), <<>>, FALSE)
            ELSE /\ epc' = "fit"
                 /\ UNCHANGED chosen_k
    /\ UNCHANGED <<inertias, eraised>>
    /\ UNCHANGED <<poolVars, pipeVars, bufVars, voiceVars, logVars, diarVars, alignVars, transVars, acqVars, vadVars>>

\* One pass of the loop of lines 377-380; a fit that raises ends the call in
\* the handler of lines 396-398.
ElbowFit ==
    /\ epc = "fit"
    /\ Len(inertias) < max_clusters_of(features_n)
    /\ \E raised \in BOOLEAN, inertia \in 0..MaxInertia :
         IF raised
         THEN /\ eraised' = TRUE
              /\ epc' = "returned"
              /\ chosen_k' = determine_optimal_clusters(
                                 features_n, max_clusters_arg_of(features_n),
                                 inertias, TRUE)
              /\ UNCHANGED inertias
         ELSE /\ inertias' = Append(inertias, inertia)
              /\ UNCHANGED <<epc, chosen_k, eraised>>
    /\ UNCHANGED features_n
    /\ UNCHANGED <<poolVars, pipeVars, bufVars, voiceVars, logVars, diarVars, alignVars, transVars, acqVars, vadVars>>

\* The elbow detection and the return (lines 382-394).
ElbowChoose ==
    /\ epc = "fit"
    /\ Len(inertias) = max_clusters_of(features_n)
    /\ chosen_k' = determine_optimal_clusters(
                       features_n, max_clusters_arg_of(features_n), inertias, FALSE)
    /\ epc' = "returned"
    /\ UNCHANGED <<features_n, inertias, eraised>>
    /\ UNCHANGED <<poolVars, pipeVars, bufVars, voiceVars, logVars, diarVars, alignVars, transVars, acqVars, vadVars>>

ElbowInit ==
    /\ features_n = 0
    /\ inertias = <<>>
    /\ epc = "idle"
    /\ chosen_k = 0
    /\ eraised = FALSE

ElbowNext ==
    \/ ElbowCall
    \/ ElbowFit
    \/ ElbowChoose

(***************************************************************************)
(* backend/main.py: get_available_model and release_model as functions of  *)
(* the flags, called in every order                                        *)
(***************************************************************************)
\* get_available_model() is called (lines 54-69).
LockAcquire ==
    /\ Len(lock_calls) < MaxLockCalls
    /\ LET g == get_available_model(lock_flags) IN
         /\ lock_flags' = g.lock
         /\ lock_calls' = Append(lock_calls,
                                 [op |-> "acquire", id |-> g.id,
                                  before |-> lock_flags, after |-> g.lock])
    /\ UNCHANGED <<poolVars, pipeVars, bufVars, voiceVars, logVars, diarVars, alignVars, transVars, elbowVars, vadVars>>

\* release_model(model_id) is called (lines 71-73).
LockRelease ==
    /\ Len(lock_calls) < MaxLockCalls
    /\ \E id \in ModelIds :
         /\ lock_flags' = release_model(lock_flags, id)
         /\ lock_calls' = Append(lock_calls,
                                 [op |-> "release", id |-> id,
                                  before |-> lock_flags,
                                  after |-> release_model(lock_flags, id)])
    /\ UNCHANGED <<poolVars, pipeVars, bufVars, voiceVars, logVars, diarVars, alignVars, transVars, elbowVars, vadVars>>

\* model_lock = {"1": False, "2": False}
LockInit ==
    /\ lock_flags = [m \in ModelIds |-> FALSE]
    /\ lock_calls = <<>>

LockNext ==
    \/ LockAcquire
    \/ LockRelease

(***************************************************************************)
(* src/audio.py: _is_voiced as a function of its argument                  *)
(*                                                                         *)
(* The function is called on its own, as tests/test_vad.py does.  The      *)
(* conversion of line 41 is a numpy call: it raises on an argument that is *)
(* not an array, and whether it raises on an array is an input of the      *)
(* step.                                                                   *)
(***************************************************************************)
\* An argument is an array of samples or something else (None, say).
NotAnArray == [array |-> FALSE, samples |-> <<>>]
VadArrays == Segments \cup {SubSeq(s, 1, k) : s \in ToneSegments, k \in 0..VadFrameLen}
VadArguments == {[array |-> TRUE, samples |-> s] : s \in VadArrays} \cup {NotAnArray}

count_frame_error_in_total(outcome, voiced, total) ==
    [voiced |-> voiced + (IF outcome = "speech" THEN 1 ELSE 0),
     total |-> total + 1]

\* the inner try of the frame loop (lines 50-56): voiced_frames += 1 if
\* is_speech says so, then total_frames += 1; a frame is_speech raises on is
\* passed over with `continue` before either count is touched
count_frame(outcome, voiced, total) ==
    [voiced |-> voiced + (IF outcome = "speech" THEN 1 ELSE 0),
     total |-> total + (IF outcome = "error" THEN 0 ELSE 1)]

\* _is_voiced(audio_data) is called (line 37)
IvCall ==
    /\ iv_pc = "idle"
    /\ \E data \in VadArguments : iv_data' = data
    /\ iv_pc' = "convert"
    /\ UNCHANGED <<iv_i, iv_voiced, iv_total, iv_result, iv_raised, iv_last,
                   iv_speech, iv_classified, iv_errors>>
    /\ UNCHANGED <<poolVars, pipeVars, bufVars, voiceVars, logVars, diarVars, alignVars, transVars, elbowVars, acqVars>>

\* audio_int16 = (audio_data * 32767).astype(np.int16); the counts start at
\* zero (lines 41-45).  If the conversion raises, the outer handler returns
\* True (lines 65-67).
IvConvert ==
    /\ iv_pc = "convert"
    /\ \E raises \in IF iv_data.array THEN BOOLEAN ELSE {TRUE} :
         /\ iv_raised' = raises
         /\ iv_pc' = IF raises THEN "returned" ELSE "loop"
         /\ iv_result' = IF raises
                         THEN IF is_voiced(TRUE, 0, 0) THEN "True" ELSE "False"
                         ELSE iv_result
    /\ iv_i' = 0
    /\ iv_voiced' = 0
    /\ iv_total' = 0
    /\ UNCHANGED <<iv_data, iv_last, iv_speech, iv_classified, iv_errors>>
    /\ UNCHANGED <<poolVars, pipeVars, bufVars, voiceVars, logVars, diarVars, alignVars, transVars, elbowVars, acqVars>>

\* one turn of the frame loop (lines 47-56)
IvFrame ==
    /\ iv_pc = "loop"
    /\ iv_i < Len(iv_data.samples) - VadFrameLen
    /\ \E outcome \in vad_outcomes(vad_frame(iv_data.samples, iv_i)) :
         LET c == count_frame(outcome, iv_voiced, iv_total) IN
           /\ iv_voiced' = c.voiced
           /\ iv_total' = c.total
           /\ iv_last' = outcome
           /\ iv_speech' = iv_speech + (IF outcome = "speech" THEN 1 ELSE 0)
           /\ iv_classified' = iv_classified + (IF outcome = "error" THEN 0 ELSE 1)
           /\ iv_errors' = iv_errors + (IF outcome = "error" THEN 1 ELSE 0)
    /\ iv_i' = iv_i + VadFrameLen
    /\ UNCHANGED <<iv_data, iv_pc, iv_result, iv_raised>>
    /\ UNCHANGED <<poolVars, pipeVars, bufVars, voiceVars, logVars, diarVars, alignVars, transVars, elbowVars, acqVars>>

\* the loop is over: the ratio test, or False without a counted frame
\* (lines 59-63)
IvReturn ==
    /\ iv_pc = "loop"
    /\ iv_i >= Len(iv_data.samples) - VadFrameLen
    /\ iv_result' = IF is_voiced(FALSE, iv_voiced, iv_total) THEN "True" ELSE "False"
    /\ iv_pc' = "returned"
    /\ UNCHANGED <<iv_data, iv_i, iv_voiced, iv_total, iv_raised, iv_last,
                   iv_speech, iv_classified, iv_errors>>
    /\ UNCHANGED <<poolVars, pipeVars, bufVars, voiceVars, logVars, diarVars, alignVars, transVars, elbowVars, acqVars>>

VadInit ==
    /\ iv_data = [array |-> TRUE, samples |-> <<>>]
    /\ iv_pc = "idle"
    /\ iv_i = 0
    /\ iv_voiced = 0
    /\ iv_total = 0
    /\ iv_result = "none"
    /\ iv_raised = FALSE
    /\ iv_last = "none"
    /\ iv_speech = 0
    /\ iv_classified = 0
    /\ iv_errors = 0

VadNext ==
    \/ IvCall
    \/ IvConvert
    \/ IvFrame
    \/ IvReturn

(***************************************************************************)
(* The specifications                                                      *)
(***************************************************************************)
Init == PoolInit /\ PipeInit /\ BufInit /\ VoiceInit /\ LogInit /\ DiarInit /\ AlignInit /\ TransInit /\ ElbowInit /\ LockInit /\ VadInit

SpecPool == Init /\ [][PoolNext]_vars
SpecPipe == Init /\ [][PipeNext]_vars
\* The event loop runs every task that is ready, an engine call returns, and
\* a timer that was set fires; requests to /start and /stop and the arrival of
\* audio are under no obligation.
PipeFairness ==
    /\ \A t \in Tasks :
          /\ WF_vars(TStart(t)) /\ WF_vars(TLoopExit(t)) /\ WF_vars(TCancelled(t))
          /\ WF_vars(TAwaitDone(t))
          /\ WF_vars(PStart(t)) /\ WF_vars(PGet(t)) /\ WF_vars(PTimeout(t))
          /\ WF_vars(PTranscribeDone(t)) /\ WF_vars(PCancelled(t))
    /\ \A h \in Stops :
          /\ WF_vars(HWaitPDone(h)) /\ WF_vars(HTimeout(h))
          /\ WF_vars(HTimeoutDone(h)) /\ WF_vars(HWaitTDone(h))
SpecPipeFair == Init /\ [][PipeNext]_vars /\ PipeFairness
SpecBuf == Init /\ [][BufNext]_vars
SpecVoice == Init /\ [][VoiceNext]_vars
SpecLog == Init /\ [][LogNext]_vars
SpecDiar == Init /\ [][DiarNext]_vars
SpecAlign == Init /\ [][AlignNext]_vars
SpecTrans == Init /\ [][TransNext]_vars
SpecElbow == Init /\ [][ElbowNext]_vars
SpecLock == Init /\ [][LockNext]_vars
SpecVad == Init /\ [][VadNext]_vars

(***************************************************************************)
(* Properties of the engine pool (SpecPool)                                *)
(***************************************************************************)
\* Request r has acquired instance m and not yet released it.
Holds(r, m) == model_id[r] = m /\ rpc[r] \in {"transcribing", "finally"}

\* C1: in every reachable state each engine instance is held (acquired and
\* not yet released) by at most one in-flight request.
C1_ExclusiveInstance ==
    \A m \in ModelIds : Cardinality({r \in Requests : Holds(r, m)}) <= 1

\* One request is transcribing on its instance while two more requests are in
\* flight (their bodies being read).
C1_Witness ==
    \E r \in Requests :
        /\ rpc[r] = "transcribing"
        /\ model_lock[model_id[r]]
        /\ Cardinality({q \in Requests : rpc[q] = "reading"}) >= 2

\* C7: a request that acquired an instance has called release_model by the
\* time it has returned, on the success path and on every failure path, and it
\* holds nothing then; once every request that acquired an instance has
\* returned, every busy flag is free.
C7_ReleasedOnReturn ==
    /\ \A r \in Requests :
         (rpc[r] = "done" /\ model_id[r] # None) =>
             (released[r] >= 1 /\ \A m \in ModelIds : ~Holds(r, m))
    /\ (\A r \in Requests : model_id[r] # None => rpc[r] = "done")
           => \A m \in ModelIds : ~model_lock[m]

\* One request has returned through the except handler and another through
\* the plain return, each after acquiring an instance.
C7_Witness ==
    \E r, q \in Requests :
        /\ rpc[r] = "done" /\ model_id[r] # None /\ failed[r]
        /\ rpc[q] = "done" /\ model_id[q] # None /\ ~failed[q]
        /\ \A m \in ModelIds : ~model_lock[m]

(***************************************************************************)
(* Properties of the pipeline (SpecPipe)                                   *)
(***************************************************************************)
\* C2: the audio queue never holds more than its capacity.
C2_QueueBounded == Len(audio_queue) <= QueueCap

\* The queue is full after an enqueue that found it full.
C2_Witness == Len(audio_queue) = QueueCap /\ evicted # {}

\* C3: an enqueue that finds the queue full removes exactly the head entry and
\* puts the new segment at the tail; the other entries stay, in their order.
C3_DropOldest ==
    [][(captured' = captured + 1 /\ is_running /\ QueueFull(audio_queue)) =>
          /\ audio_queue' = Append(Tail(audio_queue), captured')
          /\ evicted' = evicted \cup {Head(audio_queue)}
          /\ captured' \in enqueued']_vars

\* The newest segment is at the tail of a full queue whose former head was
\* evicted.
C3_Witness ==
    /\ Len(audio_queue) = QueueCap
    /\ audio_queue[Len(audio_queue)] = captured
    /\ (Head(audio_queue) - 1) \in evicted

\* C4: no segment is passed to the transcriber twice, and one that was passed
\* is no longer in the queue.
C4_ProcessedOnce ==
    /\ \A i, j \in 1..Len(transcribed) : i # j => transcribed[i] # transcribed[j]
    /\ Range(transcribed) \cap Range(audio_queue) = {}

\* Two segments were transcribed across a stop and a second start.
C4_Witness ==
    /\ Len(transcribed) >= 2
    /\ hpc[1] # "none"
    /\ tpc[2] # "none"

\* C5 as claimed: every segment that was enqueued and is no longer queued was
\* evicted by the overflow policy or passed to the transcriber.  It is stated
\* for the runs in which no start overlaps an earlier one or a stop, so that
\* the second capture and consumer loops of C8 play no part in its failure.
C5_NoLossOriginal ==
    ~overlapped =>
        enqueued \subseteq (evicted \cup Range(transcribed) \cup Range(audio_queue))

\* C5, amended: every enqueued segment is still queued or has left the queue
\* in exactly one of three ways: evicted by the overflow policy, passed to the
\* transcriber, or discarded by stop_transcription's clearing of the queue.
C5_NoLossAmended ==
    /\ enqueued = evicted \cup Range(transcribed) \cup Range(audio_queue) \cup cleared
    /\ evicted \cap Range(transcribed) = {}
    /\ evicted \cap Range(audio_queue) = {}
    /\ evicted \cap cleared = {}
    /\ cleared \cap Range(transcribed) = {}
    /\ cleared \cap Range(audio_queue) = {}
    /\ Range(transcribed) \cap Range(audio_queue) = {}
    /\ Cardinality(Range(audio_queue)) = Len(audio_queue)

\* Segments have left the queue in each of the three ways.
C5_Witness == cleared # {} /\ evicted # {} /\ transcribed # <<>>

\* The consumer loops that end in this step.
ConsumerExits(p) == ppc[p] # "done" /\ ppc'[p] = "done"

\* C9 as claimed: with the stop signal set nothing is enqueued, and no
\* consumer loop ends while the queue holds an entry.  Stated, as C5 is, for
\* the runs in which no start overlaps an earlier one or a stop.
C9_DrainOriginal ==
    [][~overlapped =>
          /\ (enqueued' # enqueued => is_running)
          /\ \A p \in Tasks : ConsumerExits(p) => audio_queue = <<>>]_vars

\* C9, amended: with the stop signal set nothing is enqueued, and a consumer
\* loop ends while the queue holds an entry only by being cancelled (by
\* stop_transcription's 5 s wait_for, or along with the start task that awaits
\* it); otherwise it goes on dequeuing until the queue is empty.
C9_DrainAmended ==
    [][/\ (enqueued' # enqueued => is_running)
       /\ \A p \in Tasks :
            (ConsumerExits(p) /\ audio_queue # <<>>) => pcancel[p]]_vars

\* A stop is waiting for a consumer that is still working through the queue.
C9_Witness ==
    \E h \in Stops :
        /\ hpc[h] = "waitP"
        /\ ~processing_active
        /\ ppc[hP[h]] = "transcribe"
        /\ ~pcancel[hP[h]]
        /\ audio_queue # <<>>
        /\ transcribed # <<>>

\* Segments are queued, and passed to the transcriber, in capture order.
InCaptureOrder ==
    /\ \A i, j \in 1..Len(transcribed) : i < j => transcribed[i] < transcribed[j]
    /\ \A i, j \in 1..Len(audio_queue) : i < j => audio_queue[i] < audio_queue[j]
    /\ \A i \in 1..Len(transcribed), j \in 1..Len(audio_queue) :
           transcribed[i] < audio_queue[j]

\* The enqueued segments that were skipped: a later one was transcribed, they
\* were not.
Gaps ==
    {c \in enqueued : c \notin Range(transcribed)
                      /\ \E i \in 1..Len(transcribed) : transcribed[i] > c}

\* C10 as claimed: capture order is kept and only overflow eviction makes
\* gaps.  Stated, as C5 is, for the runs in which no start overlaps an earlier
\* one or a stop.
C10_FifoOriginal == ~overlapped => (InCaptureOrder /\ Gaps \subseteq evicted)

\* C10, amended: capture order is kept; gaps are made only by overflow
\* eviction or by stop_transcription's clearing of the queue.
C10_FifoAmended == InCaptureOrder /\ Gaps \subseteq (evicted \cup cleared)

\* A segment was skipped between two transcribed ones.
C10_Witness ==
    /\ Len(transcribed) >= 2
    /\ \E c \in Gaps : transcribed[1] < c

\* A capture loop, or a consumer loop, that is running and was not cancelled.
CaptureLoops == {t \in Tasks : tpc[t] = "rec" /\ ~tcancel[t] /\ is_recording}
ConsumerLoops == {p \in Tasks : ppc[p] \in {"get", "transcribe"} /\ ~pcancel[p]}

\* C8: at most one capture loop and at most one consumer loop run against the
\* audio queue at any time.
C8_SingleProducerConsumer ==
    Cardinality(CaptureLoops) <= 1 /\ Cardinality(ConsumerLoops) <= 1

(***************************************************************************)
(* Properties of the sample buffer (SpecBuf)                               *)
(***************************************************************************)
IsSuffix(s, t) == Len(s) <= Len(t) /\ s = SubSeq(t, Len(t) - Len(s) + 1, Len(t))

\* The samples the device delivers in this step.
Pushed == [i \in 1..(nextSample' - nextSample) |-> nextSample + i - 1]

\* C6: the sample buffer never holds more than chunk_size + overlap_size
\* samples, whatever the interleaving of pushes and extraction steps; a push
\* keeps the newest samples and drops the oldest from the front.
C6_BufferBounded ==
    /\ [](Len(audio_buffer) <= chunk_size + overlap_size)
    /\ [][nextSample' # nextSample =>
            /\ IsSuffix(audio_buffer', audio_buffer \o Pushed)
            /\ Len(audio_buffer') =
                 Min(Len(audio_buffer) + Len(Pushed), chunk_size + overlap_size)]_vars

\* A push in the middle of an extraction has overflowed the buffer.
C6_Witness ==
    /\ dropped # {}
    /\ Len(audio_buffer) = chunk_size + overlap_size
    /\ gpc = "pop"

\* C11: an extraction returns a segment if and only if the buffer held at
\* least chunk_size samples when its length was tested; the segment has exactly
\* chunk_size samples and is the first chunk_size samples of the buffer as it
\* was when copied; with fewer samples nothing is returned and no step of the
\* extraction touches the buffer.
C11_SegmentIffEnough ==
    /\ [](gpc \in {"copy", "pop"} => Len(seen) >= chunk_size)
    /\ [][/\ (gpc = "copy" /\ gpc' = "pop") =>
               /\ Len(chunk') = chunk_size
               /\ chunk' = SubSeq(audio_buffer, 1, chunk_size)
          /\ (gpc = "return" /\ gpc' = "idle") =>
               IF Len(seen) >= chunk_size
               THEN returned' = chunk /\ Len(returned') = chunk_size
               ELSE returned' = <<>>
          /\ (Len(seen) < chunk_size /\ gpc # "idle" /\ nextSample' = nextSample) =>
               audio_buffer' = audio_buffer]_vars

\* An extraction has returned a segment and a later one, begun on too short a
\* buffer, is about to return nothing.
C11_Witness ==
    /\ gpc = "return"
    /\ Len(seen) < chunk_size
    /\ seen # <<>>
    /\ returned # <<>>
    /\ chunks_captured >= 1

\* C12: when the discarding loop of an extraction ends, the buffer begins with
\* the last overlap_size samples of the extracted chunk, and the next chunk
\* extracted begins with the last overlap_size samples of the one before.
C12_OverlapCarried ==
    [][/\ (gpc = "pop" /\ gpc' = "return") =>
            FirstN(audio_buffer, overlap_size) = LastN(chunk, overlap_size)
       /\ (gpc = "copy" /\ gpc' = "pop" /\ chunk # <<>>) =>
            FirstN(chunk', overlap_size) = LastN(chunk, overlap_size)]_vars

(***************************************************************************)
(* Properties of the voicing decision (SpecVoice)                          *)
(***************************************************************************)
\* The capture loop ends its work on a segment; it has forwarded the segment.
Decides == vpc = "vad" /\ vpc' = "idle"
Forwarded ==
    /\ chunks_processed' = chunks_processed + 1
    /\ vqueue' # <<>>
    /\ vqueue'[Len(vqueue')] = Entry
Skipped == chunks_processed' = chunks_processed /\ vqueue' = vqueue

\* C13: a segment is forwarded if and only if more than one in ten of the
\* frames the VAD classified are speech, or its peak absolute amplitude is
\* above the floor; it is skipped otherwise.
C13_ForwardedIff ==
    [][Decides => IF Entry.ratio \/ Entry.level THEN Forwarded ELSE Skipped]_vars

\* One segment was forwarded on the speech ratio alone and another on the
\* amplitude alone.
C13_Witness ==
    \E e, f \in Range(vqueue) \cup Range(vsent) :
        /\ e.ratio /\ ~e.level
        /\ f.level /\ ~f.ratio

\* C14: nothing on the queue and nothing given to the transcriber is a segment
\* whose voicing decision was false, and none of them is an all-zero segment.
C14_UnvoicedDiscarded ==
    \A e \in Range(vqueue) \cup Range(vsent) : (e.ratio \/ e.level) /\ ~e.silent

\* An all-zero segment was skipped and a voiced one reached the transcriber.
C14_Witness == skippedSilent /\ vsent # <<>>

\* C15: for an all-zero segment no frame counts as voiced, the level is zero
\* and the decision is "not voiced": the segment is skipped.
C15_SilenceNotVoiced ==
    /\ []((vpc = "vad" /\ IsSilent(vseg)) => (voiced_frames = 0 /\ audio_level = 0))
    /\ [][(Decides /\ IsSilent(vseg)) => Skipped]_vars

\* All that was taken so far was silence, and it was skipped.
C15_Witness ==
    skippedSilent /\ vpc = "idle" /\ chunks_processed = 0 /\ vtaken = MaxSegments

\* C16: a tone whose amplitude is above the floor is forwarded, whatever the
\* VAD makes of its frames.
C16_ToneVoiced ==
    [][(Decides /\ vseg \in ToneSegments /\ Abs(vseg[1]) > 1) => Forwarded]_vars

\* A tone in which the VAD found no speech is on the queue.
C16_Witness == \E e \in Range(vqueue) : e.tone /\ ~e.ratio

(***************************************************************************)
(* Properties of the default configuration                                 *)
(***************************************************************************)
\* C17: with the default configuration chunk_size is 32000 samples,
\* overlap_size 8000 samples and vad_frame_size 160 samples.
C17_DefaultSizes ==
    /\ sizes.chunk_size = 32000
    /\ sizes.overlap_size = 8000
    /\ sizes.vad_frame_size = 160

(***************************************************************************)
(* Properties of the result log (SpecLog)                                  *)
(***************************************************************************)
\* C18: the result log never holds more than its capacity, and an append to a
\* full log removes the oldest entry and nothing else.
C18_LogBounded ==
    /\ [](Len(transcription_results) <= ResultCap)
    /\ [][(Len(transcription_results) = ResultCap
             /\ transcription_results' # transcription_results
             /\ transcription_results' # <<>>) =>
          /\ transcription_results' =
                Append(Tail(transcription_results), results_made')
          /\ results_popped' = results_popped \cup {Head(transcription_results)}]_vars

\* The log is full after an append that removed its oldest entry.
C18_Witness ==
    /\ Len(transcription_results) = ResultCap
    /\ results_popped # {}
    /\ transcription_results[Len(transcription_results)] = results_made

(***************************************************************************)
(* Properties of the fallback diarization (SpecDiar)                       *)
(***************************************************************************)
\* C19: when fewer than 3 windows survive the energy and feature filters,
\* the call returns one speaker with one turn from 0 to the end of the audio
\* and has not run the clustering.
C19_FewWindowsSingle ==
    (dpc = "returned" /\ Len(segment_times) < 3) =>
        /\ dresult = single_speaker(daudio)
        /\ dresult.num_speakers = 1
        /\ Len(dresult.segments) = 1
        /\ dresult.segments[1].start = 0
        /\ dresult.segments[1].end = Len(daudio)
        /\ ~dclustered

\* The loop looked at three windows or more, none of its passes raised, two
\* windows survived and the call has returned.
C19_Witness ==
    /\ dpc = "returned"
    /\ Len(segment_times) = 2
    /\ "windowing" \notin dfailed
    /\ Len(daudio) - segment_length(DiarRate) >
          2 * (segment_length(DiarRate) - overlap(DiarRate))

Largest(seg) ==
    {k \in 1..Len(dia_segments) :
        /\ overlap_duration(seg, dia_segments[k]) > 0
        /\ \A j \in 1..Len(dia_segments) :
              overlap_duration(seg, dia_segments[j]) <=
              overlap_duration(seg, dia_segments[k])}

FirstOf(S) == CHOOSE k \in S : \A j \in S : k <= j

\* C21: every returned transcript segment has the speaker of the turn with
\* the largest overlap, the first such turn when several share it, and
\* "Unknown" when no turn overlaps it by a positive amount.
C21_LargestOverlap ==
    apc = "returned" =>
        /\ Len(updated_segments) = Len(trans_segments)
        /\ \A i \in 1..Len(trans_segments) :
              /\ updated_segments[i].start = trans_segments[i].start
              /\ updated_segments[i].end = trans_segments[i].end
              /\ updated_segments[i].speaker =
                    IF Largest(trans_segments[i]) = {} THEN Unknown
                    ELSE dia_segments[FirstOf(Largest(trans_segments[i]))].speaker

\* A returned call with a segment whose largest overlap is shared by two
\* turns of different speakers; it has the speaker of the first of them.
C21_Witness ==
    /\ apc = "returned"
    /\ \E i \in 1..Len(trans_segments) :
          \E j, k \in Largest(trans_segments[i]) :
             /\ j < k
             /\ dia_segments[j].speaker # dia_segments[k].speaker
             /\ updated_segments[i].speaker = dia_segments[j].speaker

Contained(seg, turn) == turn.start <= seg.start /\ seg.end <= turn.end

\* the turns that overlap a segment by a positive amount
Overlapping(seg) ==
    {k \in 1..Len(dia_segments) : overlap_duration(seg, dia_segments[k]) > 0}

\* a segment overlapping exactly two turns by unequal amounts has the speaker
\* of the turn with the larger overlap
LargerOfTwo ==
    \A i \in 1..Len(trans_segments) :
       \A j, k \in Overlapping(trans_segments[i]) :
          (/\ Overlapping(trans_segments[i]) = {j, k}
           /\ overlap_duration(trans_segments[i], dia_segments[j]) >
              overlap_duration(trans_segments[i], dia_segments[k])) =>
              updated_segments[i].speaker = dia_segments[j].speaker

\* C22 as stated: a transcript segment that lies within a turn has that
\* turn's speaker, and a segment overlapping two turns by unequal amounts has
\* the speaker of the turn with the larger overlap.
C22_ContainedOriginal ==
    apc = "returned" =>
        /\ \A i \in 1..Len(trans_segments) : \A k \in 1..Len(dia_segments) :
              Contained(trans_segments[i], dia_segments[k]) =>
                  updated_segments[i].speaker = dia_segments[k].speaker
        /\ LargerOfTwo

\* C22 amended: a transcript segment of positive duration that lies within a
\* turn has the speaker of the first turn it lies within; a segment of no
\* duration has "Unknown"; a segment overlapping two turns by unequal amounts
\* has the speaker of the turn with the larger overlap.
C22_ContainedAmended ==
    apc = "returned" =>
        /\ \A i \in 1..Len(trans_segments) :
              LET seg == trans_segments[i]
                  within == {k \in 1..Len(dia_segments) :
                                Contained(seg, dia_segments[k])} IN
              /\ (seg.start < seg.end /\ within # {}) =>
                     updated_segments[i].speaker =
                        dia_segments[FirstOf(within)].speaker
              /\ seg.start = seg.end => updated_segments[i].speaker = Unknown
        /\ LargerOfTwo

\* A returned call with a segment of positive duration that lies within one
\* turn and overlaps a second turn, of another speaker, by less.
C22_Witness ==
    /\ apc = "returned"
    /\ \E i \in 1..Len(trans_segments) :
          \E j, k \in Overlapping(trans_segments[i]) :
             /\ Overlapping(trans_segments[i]) = {j, k}
             /\ Contained(trans_segments[i], dia_segments[j])
             /\ ~Contained(trans_segments[i], dia_segments[k])
             /\ dia_segments[j].speaker # dia_segments[k].speaker
             /\ updated_segments[i].speaker = dia_segments[j].speaker


(***************************************************************************)
(* Properties of the merge step (SpecDiar)                                 *)
(***************************************************************************)
\* windows k and k + 1 of the call are one step apart and carry one label
ConsecutiveSame(k) ==
    /\ dsegments[k + 1].start - dsegments[k].start =
          segment_length(DiarRate) - overlap(DiarRate)
    /\ dsegments[k + 1].speaker = dsegments[k].speaker

\* C23: two consecutive surviving windows with the same label lie within one
\* turn of the output.
C23_ConsecutiveMerged ==
    dpc = "returned" =>
        \A k \in 1..(Len(dsegments) - 1) :
           ConsecutiveSame(k) =>
              \E t \in 1..Len(dresult.segments) :
                 /\ dresult.segments[t].start <= dsegments[k].start
                 /\ dsegments[k + 1].end <= dresult.segments[t].end


\* a sequence of labels with consecutive repeats collapsed
RECURSIVE Collapse(_)
Collapse(labels) ==
    IF Len(labels) <= 1 THEN labels
    ELSE IF labels[1] = labels[2] THEN Collapse(Tail(labels))
    ELSE <<labels[1]>> \o Collapse(Tail(labels))

Labels(segments) == [k \in 1..Len(segments) |-> segments[k].speaker]

\* the turn that window i belongs to when the windows are cut into turns
\* after the positions of cuts
TurnOf(i, cuts) == 1 + Cardinality({c \in cuts : c < i})

\* turns are the windows cut into runs: every window has the label of its
\* turn, and every turn starts with its first window and ends with its last
SplitsBack(windows, turns) ==
    \E cuts \in SUBSET (1..(Len(windows) - 1)) :
       /\ Cardinality(cuts) + 1 = Len(turns)
       /\ \A i \in 1..Len(windows) :
             LET t == turns[TurnOf(i, cuts)] IN
             /\ windows[i].speaker = t.speaker
             /\ (i = 1 \/ (i - 1) \in cuts) => t.start = windows[i].start
             /\ (i = Len(windows) \/ i \in cuts) => t.end = windows[i].end

\* C24: the merged turns carry the label sequence of the windows with
\* consecutive repeats collapsed, keep the first start and the last end of
\* the windows they absorbed, and cut back at the window boundaries they give
\* every window its label.
C24_MergeLossless ==
    [][(dpc = "merge" /\ dpc' = "returned") =>
          /\ Collapse(Labels(dresult'.segments)) = Collapse(Labels(dsegments))
          /\ SplitsBack(dsegments, dresult'.segments)]_vars

\* The merge joined windows of a call in which two labels occur.
C24_Witness ==
    /\ dpc = "returned"
    /\ dfailed \cap {"windowing", "standardisation", "clustering", "merging"} = {}
    /\ 1 < Len(dresult.segments)
    /\ Len(dresult.segments) < Len(dsegments)
    /\ \E j, k \in 1..Len(dresult.segments) :
          dresult.segments[j].speaker # dresult.segments[k].speaker


(***************************************************************************)
(* Properties of the transcription under the consumer (SpecTrans)          *)
(***************************************************************************)
\* C25: an entry whose transcription threw gives the consumer a result with
\* the keys text, segments and language, empty text, no segments and the
\* configured language; the consumer is then back at its queue, and it never
\* stops.
C25_FailureContained ==
    /\ [](\A k \in 1..Len(tr_handled) :
            tr_handled[k].entry \in tr_threw =>
               /\ tr_handled[k].result.keys = {"text", "segments", "language"}
               /\ ~tr_handled[k].result.text
               /\ tr_handled[k].result.segments = 0
               /\ tr_handled[k].result.language = LANGUAGE
               /\ ~tr_handled[k].logged)
    /\ [](tr_pc \in {"get", "call", "sync", "diarize", "except", "handle"})
    /\ [][(tr_pc = "handle" /\ tr_chunk \in tr_threw) =>
             (tr_pc' = "get" \/ tr_pc' = tr_pc)]_vars

\* The transcription of an entry threw, and the consumer has since handled a
\* later entry whose result had text.
C25_Witness ==
    \E j, k \in 1..Len(tr_handled) :
       /\ j < k
       /\ tr_handled[j].entry \in tr_threw
       /\ tr_handled[k].entry \notin tr_threw
       /\ tr_handled[k].logged


(***************************************************************************)
(* Properties of the pretrained diarization path (SpecDiar)                *)
(***************************************************************************)
\* C26: a call in which a step of the pretrained path failed returns from
\* the fallback, and what it returns is not the empty diarization.
C26_PretrainedDegrades ==
    (pfailed # {} /\ dpc \in {"returned", "returned_pretrained"}) =>
        /\ dpc = "returned"
        /\ dresult # empty_diarization


(***************************************************************************)
(* Properties of the cluster-count selection (SpecElbow)                   *)
(***************************************************************************)
\* the second difference of the inertias at k, k + 1, k + 2
SecondDiff(k) == inertias[k + 2] - 2 * inertias[k + 1] + inertias[k]

\* C27: with 3 inertia points or more and no fit that raised, the count
\* returned is 2 plus the position, counted from 0, of the first largest
\* second difference of the inertias.
C27_ElbowChoice ==
    (epc = "returned" /\ ~eraised /\ Len(inertias) >= 3) =>
        /\ chosen_k - 1 \in 1..(Len(inertias) - 2)
        /\ \A k \in 1..(Len(inertias) - 2) : SecondDiff(k) <= SecondDiff(chosen_k - 1)
        /\ \A k \in 1..(chosen_k - 2) : SecondDiff(k) < SecondDiff(chosen_k - 1)

\* A call with 5 inertia points has returned the count of the last second
\* difference, which is larger than the ones before it.
C27_Witness ==
    /\ epc = "returned"
    /\ ~eraised
    /\ Len(inertias) = MAX_SPEAKERS
    /\ chosen_k = Len(inertias) - 1

\* C28: when fewer than 3 inertia points were computed, the count returned is
\* 2 with 6 windows or more and 1 otherwise.
C28_InconclusiveDefault ==
    (epc = "returned" /\ Len(inertias) < 3) =>
        chosen_k = IF features_n >= 6 THEN 2 ELSE 1

\* A call with 6 windows or more has computed its 2 inertia points and
\* returned 2.
C28_Witness ==
    /\ epc = "returned"
    /\ ~eraised
    /\ features_n >= 6
    /\ Len(inertias) = 2
    /\ chosen_k = 2


C30_MutationsLocked ==
    [][/\ (audio_buffer' # audio_buffer /\ nextSample' = nextSample) =>
            buffer_lock
       /\ (nextSample' # nextSample) => (~buffer_lock /\ gpc = "idle")]_vars


(***************************************************************************)
(* Properties of the capture loop (SpecBuf)                                *)
(***************************************************************************)
\* The loop of start_recording is suspended: it has yielded a chunk to its
\* consumer or awaits the check-interval sleep.
Suspended == lpc \in {"yield", "sleep"}

\* C31: in every state in which the capture loop is suspended, yielding a
\* chunk to its consumer or awaiting the check-interval sleep, the buffer lock
\* is free; no step that suspends the loop is taken with the lock held.
C31_LockFreeWhenSuspended ==
    /\ [](Suspended => ~buffer_lock)
    /\ [][Suspended' => ~buffer_lock']_vars

\* The loop sleeps in an iteration that follows the one whose statistics
\* report took the lock.
C31_Witness ==
    /\ lpc = "sleep"
    /\ returned = <<>>
    /\ chunks_captured >= StatsEvery


(***************************************************************************)
(* Properties of _is_voiced (SpecVad)                                      *)
(***************************************************************************)
\* C32: a frame whose classification throws changes neither the speech count
\* nor the total, and every other frame adds one to the total and, if speech,
\* one to the speech count; the result is voiced if the analysis of the whole
\* segment threw, unvoiced if no frame was classified, and otherwise the
\* ratio test over the classified frames.
C32_FailsOpenPerFrame ==
    /\ [][iv_i' # iv_i /\ iv_pc = "loop" =>
            IF iv_last' = "error"
            THEN iv_voiced' = iv_voiced /\ iv_total' = iv_total
            ELSE /\ iv_total' = iv_total + 1
                 /\ iv_voiced' = iv_voiced + (IF iv_last' = "speech" THEN 1 ELSE 0)]_vars
    /\ [](iv_pc = "returned" =>
            iv_result = IF iv_raised THEN "True"
                        ELSE IF iv_classified = 0 THEN "False"
                        ELSE IF VoiceRatioDen * iv_speech > iv_classified
                             THEN "True" ELSE "False")

\* A call returned unvoiced although every frame of a loud segment was tried:
\* each classification threw.
C32_Witness ==
    /\ iv_pc = "returned"
    /\ ~iv_raised
    /\ iv_errors >= 2
    /\ iv_classified = 0
    /\ iv_result = "False"

\* A call on which the conversion threw returned voiced.
C32_WitnessRaised == iv_pc = "returned" /\ iv_raised /\ iv_result = "True" /\ iv_data.array


(***************************************************************************)
(* Properties of the turns of the fallback diarization (SpecDiar)          *)
(***************************************************************************)
WellFormed(turn) == turn.end >= turn.start /\ turn.start >= 0

\* C33: every window kept by the fallback, every labelled window, and every
\* turn of a result the fallback returns (merged turns and the single-speaker
\* turn included) has end greater than or equal to start.
C33_TurnsWellFormed ==
    /\ \A k \in 1..Len(segment_times) : WellFormed(segment_times[k])
    /\ \A k \in 1..Len(dsegments) : WellFormed(dsegments[k])
    /\ dpc = "returned" =>
          \A k \in 1..Len(dresult.segments) : WellFormed(dresult.segments[k])

\* The fallback returned a result of a clustering in which windows were
\* merged into a turn longer than one window.
C33_Witness ==
    /\ dpc = "returned"
    /\ dclustered
    /\ dfailed \subseteq {"features"}
    /\ \E k \in 1..Len(dresult.segments) :
          dresult.segments[k].end - dresult.segments[k].start >
             segment_length(DiarRate)


(***************************************************************************)
(* Properties of the cluster count (SpecElbow)                             *)
(***************************************************************************)
\* C34: for 3 windows or more and every inertia sequence, the cluster count
\* returned for the final clustering is at least 1 and at most the smaller of
\* MAX_SPEAKERS and a third of the number of windows, and so never more than
\* the number of windows.
C34_CountBounded ==
    epc = "returned" =>
        /\ features_n >= 3
        /\ 1 <= chosen_k
        /\ chosen_k <= Min(MAX_SPEAKERS, features_n \div 3)
        /\ chosen_k <= features_n

\* The elbow detection returned the largest count it can give, one less than
\* MAX_SPEAKERS.
C34_Witness ==
    /\ epc = "returned"
    /\ ~eraised
    /\ features_n >= 3 * MAX_SPEAKERS
    /\ chosen_k = MAX_SPEAKERS - 1


(***************************************************************************)
(* Termination of the consumer (SpecPipeFair)                              *)
(***************************************************************************)
ConsumerRuns(p) == ppc[p] \in {"created", "get", "transcribe"}

\* A stop request is waiting for consumer p to end.
StopWaitsFor(p) == \E h \in Stops : hpc[h] = "waitP" /\ hP[h] = p

\* Consumer p decides in this step, on its own, whether to go round its loop
\* again: its wait on the queue timed out or its transcription call returned.
ConsumerDecides(p) ==
    /\ ppc[p] \in {"get", "transcribe"}
    /\ ~pcancel[p]
    /\ ppc'[p] # ppc[p]
    /\ ppc'[p] # "transcribe"

\* C35: a consumer that a stop request waits for eventually exits; while the
\* stop flag stays set a running consumer exits even when no further entry
\* arrives; and a consumer whose wait times out or whose transcription call
\* returns while the stop flag is set and the queue is empty leaves its loop in
\* that very step.
C35_ConsumerExits ==
    /\ \A p \in Tasks : (StopWaitsFor(p) /\ ConsumerRuns(p)) ~> (ppc[p] = "done")
    /\ \A p \in Tasks :
          (~processing_active /\ ConsumerRuns(p)) ~>
              (ppc[p] = "done" \/ processing_active)
    /\ [][\A p \in Tasks :
             (ConsumerDecides(p) /\ ~processing_active /\ audio_queue = <<>>) =>
                 ppc'[p] = "done"]_vars

\* A stop request is still waiting, and the consumer it waits for has already
\* left its loop after working through the queue; nothing was cancelled.
C35_Witness ==
    /\ \E h \in Stops : hpc[h] = "waitP" /\ ppc[hP[h]] = "done"
    /\ \A h \in Stops : hpc[h] \in {"none", "waitP"}
    /\ ~overlapped
    /\ transcribed # <<>>
    /\ audio_queue = <<>>


(***************************************************************************)
(* Properties of the windowing of the fallback diarization (SpecDiar)      *)
(***************************************************************************)
\* the sliding step, window_length - overlap
WindowStep == segment_length(DiarRate) - overlap(DiarRate)

\* The window loop has ended in this step without raising.
WindowLoopEnds == dpc = "windows" /\ dpc' \in {"returned", "scale"}

\* C36: when the window loop ends, it has gone through every full window
\* that fits: with an input of window_length + m * step samples, the m + 1
\* windows starting at 0, step, ..., m * step; the window that ends at the end
\* of the input is among them, and an input of one window length gives one
\* window.
C36_EveryFullWindow ==
    [][WindowLoopEnds =>
          di \div WindowStep =
             (Len(daudio) - segment_length(DiarRate)) \div WindowStep + 1]_vars


(***************************************************************************)
(* Determinism of the extraction (SpecBuf)                                 *)
(***************************************************************************)
\* what is left of s after its first n entries
DropN(s, n) == SubSeq(s, Min(n, Len(s)) + 1, Len(s))

\* An extraction returns in this step.
ExtractionReturns == gpc = "return" /\ gpc' = "idle"

\* C37: the segment an extraction returns and the buffer it leaves are
\* determined by the buffer it was performed on (the buffer as its length
\* test found it): with chunk_size samples or more, the first chunk_size
\* samples are returned and the first chunk_size - overlap_size are gone;
\* with fewer, nothing is returned and the buffer is as it was.  Two
\* extractions on equal buffers therefore agree.
C37_ExtractionDeterministic ==
    [][ExtractionReturns =>
          IF Len(seen) >= chunk_size
          THEN /\ returned' = FirstN(seen, chunk_size)
               /\ audio_buffer' = DropN(seen, chunk_size - overlap_size)
          ELSE /\ returned' = <<>>
               /\ audio_buffer' = seen]_vars


(***************************************************************************)
(* The busy flags and their holders (SpecPool)                             *)
(***************************************************************************)
\* Request r calls release_model in this step.
Releases(r) == released'[r] > released[r]

\* C38: the flag of an instance is free only if no in-flight request is using
\* the instance, and a release by one request never frees an instance that
\* another request is still using.
C38_FlagTracksHolders ==
    /\ [](\A m \in ModelIds : ~model_lock[m] => \A r \in Requests : ~Holds(r, m))
    /\ [][\A r \in Requests :
             Releases(r) =>
                \A q \in Requests \ {r} : ~Holds(q, model_id[r])]_vars

\* A request has released instance 1 and returned, and another request, whose
\* body was being read meanwhile, is now using instance 1.
C38_Witness ==
    \E r, q \in Requests :
        /\ r # q
        /\ rpc[r] = "done" /\ released[r] >= 1 /\ model_id[r] = "1"
        /\ Holds(q, "1") /\ model_lock["1"]


(***************************************************************************)
(* What an extraction discards (SpecBuf)                                   *)
(***************************************************************************)
\* The discarding loop of an extraction removes a sample in this step.
Discards == gpc = "pop" /\ remaining' = remaining - 1 /\ audio_buffer # <<>>

\* C39: whatever the callback does meanwhile, a sample that the discarding
\* loop of an extraction removes from the front of the buffer is a sample of
\* the chunk that extraction copied.
C39_DiscardsOnlyExtracted ==
    [][Discards => Head(audio_buffer) \in Range(chunk)]_vars

============================================================================
